---- MODULE Spec2Model ----
(***************************************************************************)
(* Model of the hyperfocus-agent orchestration core:                       *)
(*   main.py            the tool-call loop                                 *)
(*   context_builder.py build_context (projection / stubbing)              *)
(*   tool_router.py     execute_tool_call / execute_tool_calls             *)
(*   llm_router.py      LLMRouter.complete (backend selection, one call)   *)
(*                      and _handle_streaming_response                     *)
(*   task_executor.py   page splitting and paged task execution            *)
(*   task_ops.py        the data store and task_orientated_paging          *)
(*   langchain_middleware.py  dynamic_model_selection,                     *)
(*                      strip_processed_images                             *)
(*   middleware/context_middleware.py  filter_old_script_versions          *)
(*   middleware/tool_middleware.py     available_tools                     *)
(*                                                                         *)
(* Python values are represented as follows.                               *)
(*   None                 the string None                                  *)
(*   str content          [str |-> "..."]                                  *)
(*   list content         [list |-> << blocks >>]                          *)
(*   message dict         [role, content, tool_call_id, tool_calls]        *)
(*                        (an absent key is None, no tool calls is << >>)  *)
(***************************************************************************)
EXTENDS Integers, Sequences, FiniteSets, TLC

VARIABLES
    pc,                    \* position of main(): loop state
    messages,              \* main.py: messages (the full history)
    tool_result_metadata,  \* main.py: tool_result_metadata (id -> metadata)
    iteration,             \* main.py: iteration
    max_tool_iterations,   \* main.py: max_tool_iterations (LM_TOOL_CALL_ITERATIONS)
    multimodal_configured, \* llm_router.py: multimodal_client/model are not None
    pending_tool_calls,    \* main.py: tool_calls of the response being handled
    context,               \* main.py: context sent in the latest complete()
    backend_calls,         \* backends called by the latest complete(), in order
    model_invocations,     \* number of llm_router.complete() calls so far
    tool_rounds,           \* number of execute_tool_calls() calls so far
    last_results,          \* main.py: results of the latest execute_tool_calls()
    p_pc,                  \* position of a projection run
    p_log, p_meta, p_k,    \* build_context arguments of a projection run
    p_out, p_out2,         \* its result, and the result of projecting that again
    s_pc,                  \* position of a selection run
    s_msgs,                \* the messages of the request being routed
    s_cfg,                 \* which of the three models are configured
    s_choice, s_calls,     \* llm_router.py: client chosen, backends called
    s_mw,                  \* langchain_middleware.py: request.model chosen
    s_models,              \* which of the middleware's global models are set
    st_pc,                 \* position of a stream reconstruction run
    st_chunks,             \* the chunks the stream delivers, in arrival order
    st_out,                \* result of _handle_streaming_response
    pg_pc,                 \* position of a paging run
    pg_data, pg_size,      \* task_executor.py: data, page_size
    pg_strategy,           \* task_executor.py: aggregation_strategy
    pg_pages,              \* task_executor.py: pages
    pg_results,            \* task_executor.py: page_results
    pg_invocations,        \* execute_task calls made so far, in order
    pg_out,                \* outcome of execute_task_with_paging
    pg_jina,               \* what the Jina segmenter does when it is called
    pg_jina_requests,      \* payloads posted to the segmentation service
    f_pc,                  \* position of a script filter run
    f_in,                  \* state["messages"] given to filter_old_script_versions
    f_out,                 \* what filter_old_script_versions returns
    h_pc,                  \* position of a has_loaded_web_page run
    h_msgs,                \* the objects given to has_loaded_web_page
    h_result,              \* what it returns
    t_history,             \* state["messages"] of the latest request
    t_tools,               \* the tools the agent was built with
    t_request_tools,       \* request.tools as the latest call left it
    t_all_tools,           \* state["all_tools"] as the latest call left it
    t_calls,               \* model calls made through available_tools
    i_pc,                  \* position of an image run
    i_messages,            \* state["messages"] given to strip_processed_images
    i_out,                 \* what strip_processed_images returns
    i_model,               \* request.model set by dynamic_model_selection
    l_pc,                  \* position of a large-result run
    l_calls,               \* the tool calls given to execute_tool_calls
    l_behaviours,          \* what the tool of each call does
    l_store,               \* task_ops._data_store
    l_results,             \* what execute_tool_calls returns
    l_lookup,              \* outcome of the lookup of task_orientated_paging
    l_executor             \* whether _task_executor_instance is set

loopVars == <<pc, messages, tool_result_metadata, iteration, max_tool_iterations,
              multimodal_configured, pending_tool_calls, context, backend_calls,
              model_invocations, tool_rounds, last_results>>
projVars == <<p_pc, p_log, p_meta, p_k, p_out, p_out2>>
selVars == <<s_pc, s_msgs, s_cfg, s_choice, s_calls, s_mw, s_models>>
streamVars == <<st_pc, st_chunks, st_out>>
pageVars == <<pg_pc, pg_data, pg_size, pg_strategy, pg_pages, pg_results, pg_invocations, pg_out,
              pg_jina, pg_jina_requests>>
auxVars == <<selVars, streamVars, pageVars>>
scriptVars == <<f_pc, f_in, f_out>>
loadedVars == <<h_pc, h_msgs, h_result>>
toolsVars == <<t_history, t_tools, t_request_tools, t_all_tools, t_calls>>
imageVars == <<i_pc, i_messages, i_out, i_model>>
largeVars == <<l_pc, l_calls, l_behaviours, l_store, l_results, l_lookup,
               l_executor>>
lcVars == <<scriptVars, loadedVars, toolsVars, imageVars, largeVars>>
vars == <<loopVars, projVars, auxVars, lcVars>>

----------------------------------------------------------------------------
(* Bounds of the model *)

MaxCap == 2            \* iteration caps 0..MaxCap are explored
MaxCalls == 2          \* tool calls in one assistant response
MaxToolCalls == 2      \* tool calls emitted by the backend in one run
MaxProjLog == 2        \* messages in a projected log (projection runs)
MaxProjIter == 2       \* current_iteration values 0..MaxProjIter
MaxSelLog == 2         \* messages of a request in a selection run
MaxChunks == 4         \* chunks delivered by one stream
MaxText == 3           \* characters of the data of a paging run
MaxPageSize == 2       \* page_size values 1..MaxPageSize
MaxTurns == 4          \* turns of a history given to the script filter
MaxObjects == 3        \* objects given to has_loaded_web_page
MaxTools == 2          \* tools of the agent
MaxHistory == 2        \* messages added to the history between model calls
MaxModelCalls == 2     \* model calls through available_tools
MaxImageCalls == 3     \* model calls of an agent run with images
MaxLargeCalls == 2     \* tool calls of a large-result run

----------------------------------------------------------------------------
(* Python values *)

None == "None"

Str(s) == [str |-> s]
List(b) == [list |-> b]
IsStr(c) == DOMAIN c = {"str"}
IsList(c) == DOMAIN c = {"list"}

Message(role, content, tool_call_id, tool_calls) ==
    [role |-> role, content |-> content,
     tool_call_id |-> tool_call_id, tool_calls |-> tool_calls]

RECURSIVE SumSeq(_)
SumSeq(s) == IF s = << >> THEN 0 ELSE Head(s) + SumSeq(Tail(s))

IsPrefix(s, t) == Len(s) <= Len(t) /\ SubSeq(t, 1, Len(s)) = s

----------------------------------------------------------------------------
(* context_builder.py *)

\* metadata dict of one tool result (main.py:154-163); context_guidance is
\* None when the key is absent
Metadata(include_in_context, function_name, stub_message, created, guidance) ==
    [include_in_context |-> include_in_context,
     function_name |-> function_name,
     stub_message |-> stub_message,
     created_at_iteration |-> created,
     context_guidance |-> guidance]

\* msg.get("tool_call_id") or ""
LookupId(msg) == IF msg.tool_call_id = None THEN "" ELSE msg.tool_call_id

\* variant without the grace iteration: created_at_iteration < current_iteration
should_stub_no_grace(metadata, current_iteration) ==
    /\ ~ metadata.include_in_context
    /\ metadata.created_at_iteration < current_iteration

\* (not include_in_context) and (created_at_iteration < current_iteration - 1)
should_stub(metadata, current_iteration) ==
    /\ ~ metadata.include_in_context
    /\ metadata.created_at_iteration < current_iteration - 1

\* stub_message, then "\n\n" and context_guidance when it is truthy
stub_text(metadata) ==
    IF metadata.context_guidance # None /\ metadata.context_guidance # ""
    THEN metadata.stub_message \o "\n\n" \o metadata.context_guidance
    ELSE metadata.stub_message

\* variant that builds the stub without the tool_call_id
stub_msg_without_id(msg, metadata) ==
    Message("tool", Str(stub_text(metadata)), "", << >>)

\* variant that appends the stub text to the content instead of replacing it
stub_msg_appending(msg, metadata) ==
    Message("tool", Str(msg.content.str \o "\n\n" \o stub_text(metadata)),
            LookupId(msg), << >>)

\* the dict built at context_builder.py:78-85
stub_msg(msg, metadata) ==
    Message("tool", Str(stub_text(metadata)), LookupId(msg), << >>)

\* one pass of the for-loop body
build_context_msg(msg, metadata_map, current_iteration) ==
    IF msg.role = "tool"
    THEN IF LookupId(msg) \notin DOMAIN metadata_map
         THEN msg
         ELSE IF should_stub(metadata_map[LookupId(msg)], current_iteration)
              THEN stub_msg(msg, metadata_map[LookupId(msg)])
              ELSE msg
    ELSE msg

build_context(msgs, metadata_map, current_iteration) ==
    [i \in 1..Len(msgs) |->
        build_context_msg(msgs[i], metadata_map, current_iteration)]

----------------------------------------------------------------------------
(* tool_router.py *)

\* a tool call of an assistant response: tool_call.id,
\* tool_call.function.name, tool_call.function.arguments
ToolCall(id, function_name, arguments) ==
    [id |-> id, function_name |-> function_name, arguments |-> arguments]

\* names registered in TOOL_REGISTRY that the model uses
TOOL_REGISTRY == {"read_file", "load_image", "store_data_for_task"}

\* the argument string {"path": "a"}
PathArguments == "{\"path\": \"a\"}"

\* the argument string {"data_id": "file_contents_readme", "data": "abc"}
StoreArguments ==
    "{\"data_id\": \"file_contents_readme\", \"data\": \"abc\"}"

\* json.loads(arguments) succeeds (over the argument strings of the model)
JsonLoads(arguments) == arguments \in {"{}", PathArguments, StoreArguments}

\* str(e) of the JSONDecodeError raised for the argument string "{"
JsonErrorText == "Expecting property name enclosed in double quotes"
JsonErrorPos == ": line 1 column 2 (char 1)"

\* What func(**arguments) does: the external tool.
\*   [kind |-> "dict", has_data, data, include_in_context, stub_message,
\*    context_guidance]   a returned dict (absent keys: has_data = FALSE,
\*                        stub_message = None, context_guidance = None;
\*                        include_in_context absent is the default TRUE)
\*   [kind |-> "str"]     a returned plain string
\*   [kind |-> "raise", type_error, error]   an exception, str(e) = error
ReturnsDict(has_data, data, include_in_context, stub_message, context_guidance) ==
    [kind |-> "dict", has_data |-> has_data, data |-> data,
     include_in_context |-> include_in_context,
     stub_message |-> stub_message, context_guidance |-> context_guidance]
ReturnsStr == [kind |-> "str", text |-> "ok"]
Raises(type_error, error) ==
    [kind |-> "raise", type_error |-> type_error, error |-> error]

Returned(value) == [raised |-> FALSE, value |-> value]
Raised(error) == [raised |-> TRUE, error |-> error]

\* MAX_RESULT_SIZE, as set by MAX_TOOL_RESULT_SIZE=600
MAX_RESULT_SIZE == 600

LARGE_RESULT_TOOLS ==
    {"read_file", "execute_shell_command", "readable_web_get", "list_directory"}

\* the tools whose results are never stored automatically
TaskOperations ==
    {"store_data_for_task", "execute_simple_task", "task_orientated_paging"}

\* repr() of a str without quotes or escapes, and of a bool
ReprStr(s) == "'" \o s \o "'"
ReprBool(b) == IF b THEN "True" ELSE "False"

\* repr() of the image dict of load_image
ReprImageData(d) ==
    "{'use_multimodal': " \o ReprBool(d.use_multimodal)
    \o ", 'message': " \o ReprStr(d.message)
    \o ", 'mime_type': " \o ReprStr(d.mime_type)
    \o ", 'base64_data': " \o ReprStr(d.base64_data) \o "}"

\* str(result) of what a tool returned: the string itself, or the repr of
\* the dict with its keys in the order data, include_in_context,
\* stub_message, context_guidance (absent keys are left out)
str_of_result(value) ==
    IF value.kind = "str" THEN value.text
    ELSE "{"
         \o (IF value.has_data
             THEN "'data': "
                  \o (IF IsStr(value.data) THEN ReprStr(value.data.str)
                      ELSE ReprImageData(value.data.dict))
                  \o ", "
             ELSE "")
         \o "'include_in_context': " \o ReprBool(value.include_in_context)
         \o (IF value.stub_message = None THEN ""
             ELSE ", 'stub_message': " \o ReprStr(value.stub_message))
         \o (IF value.context_guidance = None THEN ""
             ELSE ", 'context_guidance': " \o ReprStr(value.context_guidance))
         \o "}"

\* hashlib.md5(arguments.encode()).hexdigest()[:8] of the argument strings
\* that json.loads accepts
Md5Prefix(arguments) ==
    CASE arguments = "{}" -> "99914b93"
      [] arguments = PathArguments -> "6e8f082a"
      [] arguments = StoreArguments -> "e664cecd"

_generate_data_id(function_name, arguments) ==
    function_name \o "_" \o Md5Prefix(arguments)

\* ", ".join(f"{k}={v}" for k, v in json.loads(arguments).items())
args_summary(arguments) ==
    CASE arguments = "{}" -> ""
      [] arguments = PathArguments -> "path=a"
      [] arguments = StoreArguments -> "data_id=file_contents_readme, data=abc"

\* result_str[:500] + "..." if len(result_str) > 500 else result_str
preview(result_str) ==
    IF Len(result_str) > 500 THEN SubSeq(result_str, 1, 500) \o "..."
    ELSE result_str

\* the guidance dict returned by _handle_large_result; it has no "data"
\* key. The warning sign in front of the message is left out
_handle_large_result(value, function_name, arguments) ==
    [kind |-> "dict", has_data |-> FALSE,
     message |-> "Result too large ("
                 \o ToString(Len(str_of_result(value))) \o " characters)",
     data_id |-> _generate_data_id(function_name, arguments),
     data_size |-> Len(str_of_result(value)),
     tool_used |-> function_name,
     arguments |-> args_summary(arguments),
     preview |-> preview(str_of_result(value)),
     guidance |->
        [what_happened |->
            "The result from " \o function_name
            \o " was automatically stored because it exceeds "
            \o ToString(MAX_RESULT_SIZE) \o " characters.",
         available_tools |-> << "task_orientated_paging", "execute_simple_task" >>,
         recommended_action |->
            "Use task_orientated_paging with data_id='"
            \o _generate_data_id(function_name, arguments)
            \o "' to analyze this data in manageable chunks."]]

\* len(result_str) > MAX_RESULT_SIZE and function_name in LARGE_RESULT_TOOLS,
\* for a tool that is not a task operation (tool_router.py:187-191)
is_large_result(function_name, value) ==
    /\ function_name \notin TaskOperations
    /\ Len(str_of_result(value)) > MAX_RESULT_SIZE
    /\ function_name \in LARGE_RESULT_TOOLS

\* func(**arguments) for the tool store_data_for_task, which is code of
\* the repository: with data_id and data it returns the confirmation
\* string, with other keywords the call raises TypeError
store_data_for_task_call(arguments) ==
    CASE arguments = StoreArguments ->
            [kind |-> "str",
             text |-> "Stored " \o ToString(Len("abc"))
                      \o " characters of data with ID 'file_contents_readme'."
                      \o " You can now run a task on this data."]
      [] arguments = "{}" ->
            Raises(TRUE, "store_data_for_task() missing 2 required positional"
                         \o " arguments: 'data_id' and 'data'")
      [] arguments = PathArguments ->
            Raises(TRUE, "store_data_for_task() got an unexpected keyword"
                         \o " argument 'path'")

\* str(e) of the TypeError that func(**arguments) raises when the parsed
\* arguments do not fit the parameters of read_file(path) or
\* load_image(file_path); None when they fit
arguments_error(function_name, arguments) ==
    CASE function_name = "read_file" /\ arguments = PathArguments -> None
      [] function_name = "read_file" /\ arguments = "{}" ->
            "read_file() missing 1 required positional argument: 'path'"
      [] function_name = "read_file" /\ arguments = StoreArguments ->
            "read_file() got an unexpected keyword argument 'data_id'"
      [] function_name = "load_image" /\ arguments = "{}" ->
            "load_image() missing 1 required positional argument: 'file_path'"
      [] function_name = "load_image" /\ arguments = PathArguments ->
            "load_image() got an unexpected keyword argument 'path'"
      [] function_name = "load_image" /\ arguments = StoreArguments ->
            "load_image() got an unexpected keyword argument 'data_id'"

\* what func(**arguments) does for a tool call: store_data_for_task runs
\* the repository's code, a call whose arguments do not fit the function
\* raises TypeError, any other call does what the environment draws
tool_behaviour(tool_call, behaviour) ==
    IF tool_call.function_name = "store_data_for_task"
    THEN store_data_for_task_call(tool_call.arguments)
    ELSE IF arguments_error(tool_call.function_name, tool_call.arguments) # None
    THEN Raises(TRUE, arguments_error(tool_call.function_name,
                                      tool_call.arguments))
    ELSE behaviour

\* execute_tool_call: the value returned, or the exception raised
execute_tool_call(tool_call, behaviour) ==
    IF tool_call.function_name \notin TOOL_REGISTRY
    THEN Raised("Unknown tool: " \o tool_call.function_name)
    ELSE IF ~ JsonLoads(tool_call.arguments)
    THEN Raised("Failed to parse arguments for " \o tool_call.function_name
                \o ": " \o JsonErrorText \o JsonErrorPos)
    ELSE LET result == tool_behaviour(tool_call, behaviour) IN
    IF result.kind = "raise"
    THEN IF result.type_error
         THEN Raised("Invalid arguments for " \o tool_call.function_name
                     \o ": " \o result.error)
         ELSE Raised(result.error)
    ELSE IF is_large_result(tool_call.function_name, result)
    THEN Returned(_handle_large_result(result, tool_call.function_name,
                                       tool_call.arguments))
    ELSE Returned(result)

\* task_ops.store_data_for_task: _data_store[data_id] = data
store_data_for_task(store, data_id, data) ==
    [id \in DOMAIN store \cup {data_id} |->
        IF id = data_id THEN data ELSE store[id]]

\* _data_store after execute_tool_call(tool_call): the tool
\* store_data_for_task stores its data under its data_id, and
\* _handle_large_result stores str(result) under the generated id
data_store_after_call(store, tool_call, behaviour) ==
    IF /\ tool_call.function_name \in TOOL_REGISTRY
       /\ JsonLoads(tool_call.arguments)
    THEN IF tool_call.function_name = "store_data_for_task"
         THEN IF tool_call.arguments = StoreArguments
              THEN store_data_for_task(store, "file_contents_readme", "abc")
              ELSE store
         ELSE LET result == tool_behaviour(tool_call, behaviour) IN
              IF /\ result.kind # "raise"
                 /\ is_large_result(tool_call.function_name, result)
              THEN store_data_for_task(store,
                       _generate_data_id(tool_call.function_name,
                                         tool_call.arguments),
                       str_of_result(result))
              ELSE store
    ELSE store

RECURSIVE data_store_after_calls(_, _, _)
\* _data_store after the for-loop of execute_tool_calls
data_store_after_calls(store, tool_calls, behaviours) ==
    IF tool_calls = << >> THEN store
    ELSE data_store_after_calls(
             data_store_after_call(store, Head(tool_calls), Head(behaviours)),
             Tail(tool_calls), Tail(behaviours))

\* task_ops.task_orientated_paging up to the lookup: the stored data that
\* goes to execute_task_with_paging, or the error string returned
task_orientated_paging_lookup(store, data_id) ==
    IF data_id \notin DOMAIN store
    THEN [looked_up |-> TRUE, found |-> FALSE, error |-> None,
          data |-> "Error: No data found with ID '" \o data_id
                   \o "'. Use store_data_for_task first."]
    ELSE [looked_up |-> TRUE, found |-> TRUE, error |-> None,
          data |-> store[data_id]]

\* the default of the page_size parameter of task_orientated_paging
default_page_size == 15000

\* task_executor.get_task_executor: the RuntimeError raised while
\* _task_executor_instance is None
get_task_executor_error ==
    "Task executor not initialized. Call initialize_task_executor first."

\* the success dict of execute_tool_calls (tool_router.py:231-245)
SuccessResult(tool_call, value) ==
    [tool_call_id |-> tool_call.id,
     function_name |-> tool_call.function_name,
     arguments |-> tool_call.arguments,
     success |-> TRUE,
     result |-> value.data,
     error |-> None,
     include_in_context |-> value.include_in_context,
     stub_message |-> IF value.stub_message = None
                      THEN "[" \o tool_call.function_name
                           \o " result from previous iteration]"
                      ELSE value.stub_message,
     context_guidance |-> IF value.context_guidance = ""
                          THEN None ELSE value.context_guidance]

\* the error dict of execute_tool_calls (tool_router.py:247-255)
ErrorResult(tool_call, error) ==
    [tool_call_id |-> tool_call.id,
     function_name |-> tool_call.function_name,
     arguments |-> tool_call.arguments,
     success |-> FALSE,
     result |-> Str(""),
     error |-> error,
     include_in_context |-> TRUE,
     stub_message |-> "[Error from " \o tool_call.function_name \o "]",
     context_guidance |-> None]

\* body of the for-loop of execute_tool_calls for one tool call
execute_one(tool_call, behaviour) ==
    LET r == execute_tool_call(tool_call, behaviour) IN
    IF r.raised THEN ErrorResult(tool_call, r.error)
    ELSE IF r.value.kind = "str"
    THEN ErrorResult(tool_call, "'str' object has no attribute 'get'")
    ELSE IF ~ r.value.has_data
    THEN ErrorResult(tool_call, "'data'")
    ELSE SuccessResult(tool_call, r.value)

\* variant that gives up at the first failing tool call
execute_tool_calls_fail_fast(tool_calls, behaviours) ==
    LET all == [i \in 1..Len(tool_calls) |->
                   execute_one(tool_calls[i], behaviours[i])]
        failing == {i \in 1..Len(all) : ~ all[i].success}
    IN IF failing = {} THEN all
       ELSE SubSeq(all, 1, CHOOSE i \in failing : \A j \in failing : i <= j)

\* execute_tool_calls: one result per tool call, in call order
execute_tool_calls(tool_calls, behaviours) ==
    [i \in 1..Len(tool_calls) |-> execute_one(tool_calls[i], behaviours[i])]

----------------------------------------------------------------------------
(* llm_router.py: LLMRouter.complete, the selection part *)

\* self.message_length_threshold (LLM_ROUTER_THRESHOLD), scaled to the
\* short strings of the model
message_length_threshold == 12

ImageBlock(url) == [type |-> "image_url", url |-> url]
TextBlock(text) == [type |-> "text", text |-> text]

\* contribution of one message to _calculate_total_message_length
content_length(message) ==
    IF IsStr(message.content)
    THEN Len(message.content.str)
    ELSE SumSeq([i \in 1..Len(message.content.list) |->
                    IF message.content.list[i].type = "text"
                    THEN Len(message.content.list[i].text) ELSE 0])

_calculate_total_message_length(msgs) ==
    SumSeq([i \in 1..Len(msgs) |-> content_length(msgs[i])])

_has_image_content(msgs) ==
    \E i \in 1..Len(msgs) :
        /\ IsList(msgs[i].content)
        /\ \E j \in 1..Len(msgs[i].content.list) :
              msgs[i].content.list[j].type = "image_url"

\* the mutant sends a request of exactly the threshold to the remote client
select_by_length_inclusive(msgs) ==
    IF _calculate_total_message_length(msgs) >= message_length_threshold
    THEN "remote"
    ELSE "local"

\* the length branch of complete() (llm_router.py:86-96)
select_by_length(msgs) ==
    IF _calculate_total_message_length(msgs) > message_length_threshold
    THEN "remote"
    ELSE "local"

\* the mutant routes an image request by length when no multimodal model is
\* configured
select_backend_by_length_without_multimodal(msgs, has_multimodal) ==
    IF _has_image_content(msgs) /\ has_multimodal
    THEN "multimodal"
    ELSE select_by_length(msgs)

\* the client chosen by complete(), or "ValueError" when the multimodal
\* model is requested but not configured (llm_router.py:80-96)
select_backend(msgs, has_multimodal) ==
    IF _has_image_content(msgs)
    THEN IF has_multimodal THEN "multimodal" ELSE "ValueError"
    ELSE select_by_length(msgs)

----------------------------------------------------------------------------
(* main.py: the tool-call loop *)

\* messages as initialised at main.py:97-101
InitialMessages ==
    << Message("system", Str("sys"), None, << >>),
       Message("user", Str("hi"), None, << >>) >>

\* assistant_message.model_dump() with content None replaced by ""
\* (main.py:123-134)
assistant_message_dict(content, tool_calls) ==
    Message("assistant", Str(IF content = None THEN "" ELSE content),
            None, tool_calls)

\* variant that keeps the projected context as the history
append_response_to_context(msgs, ctx, assistant) == Append(ctx, assistant)

\* the log after the response was appended (main.py:136)
append_response(msgs, ctx, assistant) == Append(msgs, assistant)

\* variant with the comparison off by one
limit_reached_off_by_one(it, cap) == it > cap

\* iteration >= max_tool_iterations (main.py:143)
limit_reached(it, cap) == it >= cap

\* variant that tests the iteration limit before the tool calls
after_response_limit_first(tool_calls, it, cap) ==
    IF limit_reached(it, cap) THEN "ABORTED_iteration_limit"
    ELSE IF tool_calls = << >> THEN "DONE"
    ELSE "EXECUTING_TOOLS"

\* where the loop goes after the response was appended (main.py:138-147)
after_response(tool_calls, it, cap) ==
    IF tool_calls = << >> THEN "DONE"
    ELSE IF limit_reached(it, cap) THEN "ABORTED_iteration_limit"
    ELSE "EXECUTING_TOOLS"

\* isinstance(result_data, dict) and result_data.get("use_multimodal")
is_image_result(result) ==
    /\ result.success
    /\ DOMAIN result.result = {"dict"}
    /\ result.result.dict.use_multimodal

\* content of the tool message of one result (main.py:166-213)
tool_content(result) ==
    IF result.success
    THEN IF is_image_result(result)
         THEN result.result.dict.message
         ELSE result.result.str
    ELSE "Error: " \o result.error

\* variant that labels the tool message with the function name
tool_message_by_name(result) ==
    Message("tool", Str(tool_content(result)), result.function_name, << >>)

tool_message(result) ==
    Message("tool", Str(tool_content(result)), result.tool_call_id, << >>)

\* metadata written for one result (main.py:154-163)
result_metadata(result, it) ==
    Metadata(result.include_in_context, result.function_name,
             result.stub_message, it, result.context_guidance)

\* tool_result_metadata[result["tool_call_id"]] = metadata (main.py:165)
store_metadata(metadata_map, result, it) ==
    [id \in DOMAIN metadata_map \cup {result.tool_call_id} |->
        IF id = result.tool_call_id THEN result_metadata(result, it)
        ELSE metadata_map[id]]

\* the metadata map after the for-loop over results (main.py:152-165)
RECURSIVE store_all_metadata(_, _, _)
store_all_metadata(metadata_map, results, it) ==
    IF results = << >> THEN metadata_map
    ELSE store_all_metadata(store_metadata(metadata_map, Head(results), it),
                            Tail(results), it)

\* image_data_to_add after the for-loop: the last image result, if any
image_results(results) ==
    SelectSeq(results, LAMBDA r : is_image_result(r))

\* the user message appended after the tool messages (main.py:217-232)
user_image_message(image_data) ==
    Message("user",
            List(<< ImageBlock("data:" \o image_data.mime_type \o ";base64,"
                               \o image_data.base64_data) >>),
            None, << >>)

\* messages appended by one round of tool execution (main.py:152-232)
round_messages(results) ==
    [i \in 1..Len(results) |-> tool_message(results[i])]
    \o (IF image_results(results) = << >> THEN << >>
        ELSE << user_image_message(
                  image_results(results)[Len(image_results(results))]
                      .result.dict) >>)

----------------------------------------------------------------------------
(* The environment of the loop: backend responses and tools *)

ToolCallIds == {"a", "b"}

\* tool calls the backend may request
BackendToolCalls ==
    {ToolCall(id, "read_file", PathArguments) : id \in ToolCallIds}
    \cup {ToolCall(id, "nope", "{}") : id \in ToolCallIds}
    \cup {ToolCall(id, "read_file", "{") : id \in ToolCallIds}

\* message.content of a response (None: the stream carried no text); the
\* backend sends text only in a response without tool calls
ResponseContents(tool_calls) ==
    IF tool_calls = << >> THEN {None, "ok"} ELSE {None}

ImageData ==
    [use_multimodal |-> TRUE, message |-> "Image loaded",
     mime_type |-> "image/png", base64_data |-> "QUJD"]

\* what a registered tool may do when called
ToolBehaviours ==
    { ReturnsDict(TRUE, Str("DATA"), TRUE, None, None),
      ReturnsDict(TRUE, Str("DATA-TO-DROP"), FALSE, "STUB", "GUIDE"),
      ReturnsDict(TRUE, [dict |-> ImageData], TRUE, None, None),
      Raises(FALSE, "boom") }

SeqsUpTo(S, n) == UNION {[1..k -> S] : k \in 0..n}

\* number of tool calls emitted by the assistant messages of a log
emitted_tool_calls(msgs) ==
    SumSeq([i \in 1..Len(msgs) |-> Len(msgs[i].tool_calls)])

\* client.chat.completions.create() calls made by one complete()
\* (llm_router.py:98-106): a single call to the selected backend,
\* whether or not the stream can be assembled
create_calls(backend, stream_ok) == << backend >>

----------------------------------------------------------------------------
(* The loop *)

Terminal == {"DONE", "ABORTED_iteration_limit", "ABORTED_backend_error",
             "ABORTED_configuration_error"}

LoopInit ==
    /\ pc = "AWAITING_MODEL"
    /\ messages = InitialMessages
    /\ tool_result_metadata = << >>
    /\ iteration = 0
    /\ max_tool_iterations \in 0..MaxCap
    /\ multimodal_configured \in BOOLEAN
    /\ pending_tool_calls = << >>
    /\ context = << >>
    /\ backend_calls = << >>
    /\ model_invocations = 0
    /\ tool_rounds = 0
    /\ last_results = << >>

\* main.py:111-145 with a response that could be assembled
InvokeModel ==
    /\ pc = "AWAITING_MODEL"
    /\ LET ctx == build_context(messages, tool_result_metadata, iteration)
           backend == select_backend(ctx, multimodal_configured)
       IN /\ backend # "ValueError"
          /\ \E tool_calls \in SeqsUpTo(BackendToolCalls, MaxCalls),
                content \in {None, "ok"} :
                /\ content \in ResponseContents(tool_calls)
                /\ emitted_tool_calls(messages) + Len(tool_calls) <= MaxToolCalls
                /\ context' = ctx
                /\ backend_calls' = create_calls(backend, TRUE)
                /\ messages' = append_response(messages, ctx,
                                   assistant_message_dict(content, tool_calls))
                /\ pending_tool_calls' = tool_calls
                /\ pc' = after_response(tool_calls, iteration,
                                         max_tool_iterations)
    /\ model_invocations' = model_invocations + 1
    /\ UNCHANGED <<tool_result_metadata, iteration, max_tool_iterations,
                   multimodal_configured, tool_rounds, last_results, projVars, auxVars, lcVars>>

\* main.py:115-121 when the stream delivers no chunk: the ValueError of
\* llm_router.py:163 leaves complete() and main()
StreamFails ==
    /\ pc = "AWAITING_MODEL"
    /\ LET ctx == build_context(messages, tool_result_metadata, iteration)
           backend == select_backend(ctx, multimodal_configured)
       IN /\ backend # "ValueError"
          /\ context' = ctx
          /\ backend_calls' = create_calls(backend, FALSE)
    /\ pc' = "ABORTED_backend_error"
    /\ model_invocations' = model_invocations + 1
    /\ UNCHANGED <<messages, tool_result_metadata, iteration,
                   max_tool_iterations, multimodal_configured,
                   pending_tool_calls, tool_rounds, last_results, projVars, auxVars, lcVars>>

\* main.py:115-121 when an image is in the context and no multimodal model
\* is configured: the ValueError of llm_router.py:82 leaves main()
ConfigurationFails ==
    /\ pc = "AWAITING_MODEL"
    /\ LET ctx == build_context(messages, tool_result_metadata, iteration)
       IN /\ select_backend(ctx, multimodal_configured) = "ValueError"
          /\ context' = ctx
    /\ backend_calls' = << >>
    /\ pc' = "ABORTED_configuration_error"
    /\ model_invocations' = model_invocations + 1
    /\ UNCHANGED <<messages, tool_result_metadata, iteration,
                   max_tool_iterations, multimodal_configured,
                   pending_tool_calls, tool_rounds, last_results, projVars, auxVars, lcVars>>

\* main.py:147-233
ExecuteTools ==
    /\ pc = "EXECUTING_TOOLS"
    /\ \E behaviours \in [1..Len(pending_tool_calls) -> ToolBehaviours] :
          LET results == execute_tool_calls(pending_tool_calls, behaviours)
          IN /\ last_results' = results
             /\ tool_result_metadata' =
                    store_all_metadata(tool_result_metadata, results, iteration)
             /\ messages' = messages \o round_messages(results)
    /\ iteration' = iteration + 1
    /\ tool_rounds' = tool_rounds + 1
    /\ pc' = "AWAITING_MODEL"
    /\ UNCHANGED <<max_tool_iterations, multimodal_configured,
                   pending_tool_calls, context, backend_calls,
                   model_invocations, projVars, auxVars, lcVars>>

ProjIdle ==
    /\ p_pc = "idle"
    /\ p_log = << >> /\ p_meta = << >> /\ p_k = 0
    /\ p_out = << >> /\ p_out2 = << >>

SelIdle ==
    /\ s_pc = "idle"
    /\ s_msgs = << >>
    /\ s_cfg = [local |-> TRUE, remote |-> TRUE, multimodal |-> FALSE]
    /\ s_choice = None /\ s_calls = << >> /\ s_mw = None
    /\ s_models = [local |-> FALSE, remote |-> FALSE, multimodal |-> FALSE]

StreamIdle ==
    /\ st_pc = "idle" /\ st_chunks = << >> /\ st_out = None

PageIdle ==
    /\ pg_pc = "idle"
    /\ pg_data = << >> /\ pg_size = 1 /\ pg_strategy = "concatenate"
    /\ pg_pages = << >> /\ pg_results = << >> /\ pg_invocations = << >>
    /\ pg_out = None
    /\ pg_jina = "unconfigured" /\ pg_jina_requests = << >>

AuxIdle == SelIdle /\ StreamIdle /\ PageIdle

\* the result of a middleware that has not run
NoUpdate == [update |-> FALSE, messages |-> << >>]

ScriptIdle == f_pc = "idle" /\ f_in = << >> /\ f_out = NoUpdate

LoadedIdle == h_pc = "idle" /\ h_msgs = << >> /\ h_result = FALSE

\* state.get("all_tools") is None
NoAllTools == [captured |-> FALSE, tools |-> << >>]

ToolsIdle ==
    /\ t_history = << >> /\ t_tools = << >> /\ t_request_tools = << >>
    /\ t_all_tools = NoAllTools /\ t_calls = -1

ImageIdle ==
    /\ i_pc = "idle" /\ i_messages = << >> /\ i_out = NoUpdate
    /\ i_model = None

\* no lookup was made
NoLookup == [looked_up |-> FALSE, found |-> FALSE, error |-> None, data |-> ""]

LargeIdle ==
    /\ l_pc = "idle" /\ l_calls = << >> /\ l_behaviours = << >>
    /\ l_store = << >> /\ l_results = << >> /\ l_lookup = NoLookup
    /\ l_executor = FALSE

LcIdle == ScriptIdle /\ LoadedIdle /\ ToolsIdle /\ ImageIdle /\ LargeIdle

Init == LoopInit /\ ProjIdle /\ AuxIdle /\ LcIdle

Next == InvokeModel \/ StreamFails \/ ConfigurationFails \/ ExecuteTools

Spec == Init /\ [][Next]_vars

\* the loop with the assumption that every backend and tool call returns
FairSpec == Spec /\ WF_vars(Next)

----------------------------------------------------------------------------
(* Projection runs: build_context applied to drawn inputs *)

ProjMessages ==
    { Message("user", Str("hi"), None, << >>),
      Message("assistant", Str(""), None, << ToolCall("a", "read_file", "{}") >>),
      Message("tool", Str("FULL-A"), "a", << >>),
      Message("tool", Str("FULL-B"), "b", << >>),
      user_image_message(ImageData) }

ProjMetadata ==
    { Metadata(inc, "read_file", "STUB", c, g) :
        inc \in BOOLEAN, c \in 0..MaxProjIter, g \in {None, "GUIDE"} }

ProjMetadataMaps ==
    UNION { [ids -> ProjMetadata] : ids \in SUBSET ToolCallIds }

LoopIdle ==
    /\ pc = "DONE"
    /\ messages = InitialMessages
    /\ tool_result_metadata = << >>
    /\ iteration = 0
    /\ max_tool_iterations = 0
    /\ multimodal_configured = FALSE
    /\ pending_tool_calls = << >>
    /\ context = << >>
    /\ backend_calls = << >>
    /\ model_invocations = 0
    /\ tool_rounds = 0
    /\ last_results = << >>

\* the loop waits for a tool that works on its own; log is the history so far
LoopAt(log) ==
    /\ pc = "DONE"
    /\ messages = log
    /\ tool_result_metadata = << >>
    /\ iteration = 0
    /\ max_tool_iterations = 0
    /\ multimodal_configured = FALSE
    /\ pending_tool_calls = << >>
    /\ context = << >>
    /\ backend_calls = << >>
    /\ model_invocations = 0
    /\ tool_rounds = 0
    /\ last_results = << >>

\* histories of the main conversation at the time a task tool is called
MainLogs ==
    { InitialMessages,
      InitialMessages \o << Message("assistant", Str("history"), None, << >>) >> }

ProjInit ==
    /\ LoopIdle
    /\ AuxIdle /\ LcIdle
    /\ p_pc = "input"
    /\ p_log \in SeqsUpTo(ProjMessages, MaxProjLog)
    /\ p_meta \in ProjMetadataMaps
    /\ p_k \in 0..MaxProjIter
    /\ p_out = << >>
    /\ p_out2 = << >>

\* context = build_context(messages, tool_result_metadata, current_iteration)
Project ==
    /\ p_pc = "input"
    /\ p_out' = build_context(p_log, p_meta, p_k)
    /\ p_pc' = "projected"
    /\ UNCHANGED <<p_log, p_meta, p_k, p_out2, loopVars, auxVars, lcVars>>

\* build_context applied to its own result with the same metadata and iteration
ProjectAgain ==
    /\ p_pc = "projected"
    /\ p_out2' = build_context(p_out, p_meta, p_k)
    /\ p_pc' = "reprojected"
    /\ UNCHANGED <<p_log, p_meta, p_k, p_out, loopVars, auxVars, lcVars>>

ProjNext == Project \/ ProjectAgain

ProjSpec == ProjInit /\ [][ProjNext]_vars

----------------------------------------------------------------------------
(* langchain_middleware.py: dynamic_model_selection *)

\* router_threshold: the threshold argument of initialize_models (10000 by
\* default), scaled like message_length_threshold
router_threshold == 12

\* langchain_middleware._has_image_content: LangChain "image" blocks and
\* OpenAI "image_url" blocks both count
mw_has_image_content(msgs) ==
    \E i \in 1..Len(msgs) :
        /\ IsList(msgs[i].content)
        /\ \E j \in 1..Len(msgs[i].content.list) :
              msgs[i].content.list[j].type \in {"image", "image_url"}

_calculate_message_length(msgs) ==
    SumSeq([i \in 1..Len(msgs) |->
        IF IsStr(msgs[i].content)
        THEN Len(msgs[i].content.str)
        ELSE SumSeq([j \in 1..Len(msgs[i].content.list) |->
                        IF msgs[i].content.list[j].type = "text"
                        THEN Len(msgs[i].content.list[j].text) ELSE 0])])

\* the module's globals local_model, remote_model and multimodal_model
\* after import: all None. A record tells which of them are not None
NoModels == [local |-> FALSE, remote |-> FALSE, multimodal |-> FALSE]

\* initialize_models(local, remote, multimodal): the globals are the
\* arguments
initialize_models(local, remote, multimodal) ==
    [local |-> local, remote |-> remote, multimodal |-> multimodal]

\* the mutant sends long requests to the remote model without asking
\* whether it is set
dynamic_model_selection_no_fallback(msgs, models) ==
    IF mw_has_image_content(msgs) /\ models.multimodal
    THEN "multimodal"
    ELSE IF _calculate_message_length(msgs) > router_threshold
         THEN IF models.remote THEN "remote" ELSE None
         ELSE IF models.local THEN "local"
              ELSE IF models.remote THEN "remote" ELSE None

\* which of the global models is assigned to request.model; None when the
\* global that is assigned is None
dynamic_model_selection(msgs, models) ==
    IF mw_has_image_content(msgs) /\ models.multimodal
    THEN "multimodal"
    ELSE IF _calculate_message_length(msgs) > router_threshold /\ models.remote
         THEN "remote"
         ELSE IF models.local THEN "local"
              ELSE IF models.remote THEN "remote" ELSE None

----------------------------------------------------------------------------
(* Selection runs: complete() and the middleware applied to drawn requests *)

AudioBlock(data) == [type |-> "input_audio", data |-> data]

SelMessages ==
    { Message("user", Str("aaaaaa"), None, << >>),
      Message("assistant", Str("bbbbbbb"), None, << >>),
      Message("assistant", Str(""), None, << >>),
      Message("user", List(<< TextBlock("cccccc"), AudioBlock("zzzzzzzzzzzzz") >>),
              None, << >>),
      Message("user", List(<< ImageBlock("u") >>), None, << >>),
      Message("user", List(<< TextBlock("ddddddd"), ImageBlock("u") >>),
              None, << >>) }

ModelConfigs == [local : BOOLEAN, remote : BOOLEAN, multimodal : BOOLEAN]

SelInit ==
    /\ LoopIdle /\ ProjIdle /\ StreamIdle /\ PageIdle /\ LcIdle
    /\ s_pc = "input"
    /\ s_msgs \in SeqsUpTo(SelMessages, MaxSelLog)
    /\ s_cfg \in ModelConfigs
    /\ s_choice = None /\ s_calls = << >> /\ s_mw = None
    /\ s_models = NoModels

\* initialize_models(local, remote, multimodal): any argument may be None
InitializeModels ==
    /\ s_pc # "idle" \/ i_pc # "idle"
    /\ \E local \in BOOLEAN, remote \in BOOLEAN, multimodal \in BOOLEAN :
          /\ s_models' = initialize_models(local, remote, multimodal)
          /\ s_models' # s_models
    /\ UNCHANGED <<s_pc, s_msgs, s_cfg, s_choice, s_calls, s_mw, loopVars,
                   projVars, streamVars, pageVars, lcVars>>

\* LLMRouter.complete(messages): the client is selected and, unless the
\* selection raised, its chat.completions.create is called
Complete ==
    /\ s_pc = "input"
    /\ LET choice == select_backend(s_msgs, s_cfg.multimodal) IN
          /\ s_choice' = choice
          /\ s_calls' = IF choice = "ValueError" THEN << >>
                        ELSE create_calls(choice, TRUE)
    /\ s_pc' = "completed"
    /\ UNCHANGED <<s_msgs, s_cfg, s_mw, s_models, loopVars, projVars,
                   streamVars, pageVars, lcVars>>

\* dynamic_model_selection(request, handler) on the same messages
DynamicModelSelection ==
    /\ s_pc = "completed"
    /\ s_mw' = dynamic_model_selection(s_msgs, s_models)
    /\ s_pc' = "selected"
    /\ UNCHANGED <<s_msgs, s_cfg, s_choice, s_calls, s_models, loopVars, projVars,
                   streamVars, pageVars, lcVars>>

SelNext == InitializeModels \/ Complete \/ DynamicModelSelection

SelSpec == SelInit /\ [][SelNext]_vars

----------------------------------------------------------------------------
(* llm_router.py: LLMRouter._handle_streaming_response *)

\* one entry of delta.tool_calls; has_function tells whether .function is
\* set, and id, name and arguments are None when the event omits them
ToolCallDelta(index, id, has_function, name, arguments) ==
    [index |-> index, id |-> id, has_function |-> has_function,
     name |-> name, arguments |-> arguments]

\* a ChatCompletionChunk; has_choice is FALSE when chunk.choices is empty
Chunk(has_choice, content, tool_calls, finish_reason) ==
    [has_choice |-> has_choice, content |-> content,
     tool_calls |-> tool_calls, finish_reason |-> finish_reason]

\* Python truthiness of an optional string
Truthy(s) == s # None /\ s # ""

\* position of the entry of tool_calls_parts with key idx, 0 when absent
PartPos(parts, idx) ==
    IF \E p \in 1..Len(parts) : parts[p].index = idx
    THEN CHOOSE p \in 1..Len(parts) : parts[p].index = idx
    ELSE 0

\* tool_calls_parts[idx] = {...} for a new idx: the dict keeps insertion order
new_part(parts, d) ==
    IF PartPos(parts, d.index) # 0 THEN parts
    ELSE Append(parts, [index |-> d.index,
                        id |-> IF Truthy(d.id) THEN d.id ELSE "",
                        name |-> IF d.has_function THEN d.name ELSE "",
                        arguments |-> ""])

\* the mutant keeps only the latest fragment of the arguments
apply_delta_overwriting(parts, d) ==
    LET created == new_part(parts, d)
        p == PartPos(created, d.index)
    IN  [created EXCEPT
           ![p].id = IF Truthy(d.id) THEN d.id ELSE @,
           ![p].name = IF d.has_function /\ Truthy(d.name) THEN d.name ELSE @,
           ![p].arguments = IF d.has_function /\ Truthy(d.arguments)
                            THEN d.arguments ELSE @]

\* the body of "for tool_call in delta.tool_calls" (llm_router.py:137-154)
apply_delta(parts, d) ==
    LET created == new_part(parts, d)
        p == PartPos(created, d.index)
    IN  [created EXCEPT
           ![p].id = IF Truthy(d.id) THEN d.id ELSE @,
           ![p].name = IF d.has_function /\ Truthy(d.name) THEN d.name ELSE @,
           ![p].arguments = IF d.has_function /\ Truthy(d.arguments)
                            THEN @ \o d.arguments ELSE @]

RECURSIVE apply_deltas(_, _)
apply_deltas(parts, deltas) ==
    IF deltas = << >> THEN parts
    ELSE apply_deltas(apply_delta(parts, Head(deltas)), Tail(deltas))

\* the body of "for chunk in stream" on the pair of accumulators
collect_chunk(acc, chunk) ==
    IF ~chunk.has_choice THEN acc
    ELSE [content_parts |-> IF chunk.content # None
                            THEN Append(acc.content_parts, chunk.content)
                            ELSE acc.content_parts,
          tool_calls_parts |-> apply_deltas(acc.tool_calls_parts, chunk.tool_calls)]

RECURSIVE collect(_, _)
collect(acc, chunks) ==
    IF chunks = << >> THEN acc
    ELSE collect(collect_chunk(acc, Head(chunks)), Tail(chunks))

RECURSIVE JoinStrings(_)
\* ''.join(parts)
JoinStrings(parts) ==
    IF parts = << >> THEN "" ELSE Head(parts) \o JoinStrings(Tail(parts))

\* two values of tool_calls_parts are equal dicts
same_part(a, b) == a.id = b.id /\ a.name = b.name /\ a.arguments = b.arguments

\* the sort key of the value at position p: the position of the first key
\* whose value equals it (llm_router.py:182)
part_key(parts, p) ==
    CHOOSE q \in 1..Len(parts) :
        /\ same_part(parts[q], parts[p])
        /\ \A r \in 1..(q - 1) : ~same_part(parts[r], parts[p])

\* sorted(tool_calls_parts.values(), key=...): a stable sort by part_key
sorted_positions(parts) ==
    CHOOSE s \in [1..Len(parts) -> 1..Len(parts)] :
        \A i, j \in 1..Len(parts) :
            i < j => \/ part_key(parts, s[i]) < part_key(parts, s[j])
                     \/ /\ part_key(parts, s[i]) = part_key(parts, s[j])
                        /\ s[i] < s[j]

StreamRaised(error) ==
    [raised |-> error, content |-> None, tool_calls |-> << >>,
     finish_reason |-> None]

AssembledCompletion(content, tool_calls, finish_reason) ==
    [raised |-> None, content |-> content, tool_calls |-> tool_calls,
     finish_reason |-> finish_reason]

\* the ChatCompletion assembled from the chunks of a stream. The openai
\* types are validated on construction: a function name or a finish_reason
\* of None is rejected with a ValidationError
_handle_streaming_response(chunks) ==
    IF chunks = << >> THEN StreamRaised("ValueError")
    ELSE
      LET acc == collect([content_parts |-> << >>, tool_calls_parts |-> << >>],
                         chunks)
          parts == acc.tool_calls_parts
          last_chunk == chunks[Len(chunks)]
          finish_reason == IF last_chunk.has_choice
                           THEN last_chunk.finish_reason ELSE "stop"
      IN  IF (\E p \in 1..Len(parts) : parts[p].name = None)
             \/ finish_reason = None
          THEN StreamRaised("ValidationError")
          ELSE AssembledCompletion(
                 IF acc.content_parts # << >>
                 THEN JoinStrings(acc.content_parts) ELSE None,
                 [k \in 1..Len(parts) |->
                     LET tc == parts[sorted_positions(parts)[k]]
                     IN  ToolCall(tc.id, tc.name, tc.arguments)],
                 finish_reason)

----------------------------------------------------------------------------
(* Stream runs: reconstruction applied to drawn streams *)

StreamChunks ==
    { Chunk(TRUE, "he", << >>, None),
      Chunk(TRUE, None, << ToolCallDelta(0, "a", TRUE, "read_file", "{") >>, None),
      Chunk(TRUE, None, << ToolCallDelta(0, None, TRUE, None, "}") >>, None),
      Chunk(TRUE, None, << ToolCallDelta(1, "b", TRUE, "load_image", None) >>, None),
      Chunk(TRUE, None, << ToolCallDelta(2, "a", TRUE, "read_file", "{") >>, None),
      Chunk(TRUE, None, << ToolCallDelta(1, None, FALSE, None, None),
                           ToolCallDelta(0, None, TRUE, None, "{") >>, None),
      Chunk(TRUE, None, << >>, "tool_calls"),
      Chunk(TRUE, "y", << >>, "stop"),
      Chunk(FALSE, None, << >>, None) }

StreamInit ==
    /\ LoopIdle /\ ProjIdle /\ SelIdle /\ PageIdle /\ LcIdle
    /\ st_pc = "input"
    /\ st_chunks \in SeqsUpTo(StreamChunks, MaxChunks)
    /\ st_out = None

\* _handle_streaming_response(stream) consumes the whole stream
HandleStreamingResponse ==
    /\ st_pc = "input"
    /\ st_out' = _handle_streaming_response(st_chunks)
    /\ st_pc' = "done"
    /\ UNCHANGED <<st_chunks, loopVars, projVars, selVars, pageVars, lcVars>>

StreamNext == HandleStreamingResponse

StreamSpec == StreamInit /\ [][StreamNext]_vars

----------------------------------------------------------------------------
(* task_executor.py: TaskExecutor, page splitting and paging *)

\* texts that are split are sequences of characters; NL is the line break
NL == "\n"

\* data.split('\n'): the texts between the line breaks, one more than
\* there are line breaks
SplitLines(data) ==
    LET breaks == {i \in 1..Len(data) : data[i] = NL}
        \* position of the k-th line break; 0 and Len(data) + 1 stand for
        \* the two ends of the text
        break(k) == IF k = 0 THEN 0
                    ELSE IF k > Cardinality(breaks) THEN Len(data) + 1
                    ELSE CHOOSE p \in breaks :
                            Cardinality({q \in breaks : q <= p}) = k
    IN  [k \in 1..(Cardinality(breaks) + 1) |->
            SubSeq(data, break(k - 1) + 1, break(k) - 1)]

RECURSIVE JoinLines(_)
\* '\n'.join(lines)
JoinLines(lines) ==
    IF lines = << >> THEN << >>
    ELSE IF Len(lines) = 1 THEN Head(lines)
         ELSE Head(lines) \o << NL >> \o JoinLines(Tail(lines))

\* the body of "for line in lines" of _split_simple on its three locals
split_step(acc, line, page_size) ==
    LET line_size == Len(line) + 1 IN
    IF acc.current_size + line_size > page_size /\ acc.current_page # << >>
    THEN [pages |-> Append(acc.pages, JoinLines(acc.current_page)),
          current_page |-> << line >>,
          current_size |-> line_size]
    ELSE [pages |-> acc.pages,
          current_page |-> Append(acc.current_page, line),
          current_size |-> acc.current_size + line_size]

RECURSIVE split_loop(_, _, _)
split_loop(acc, lines, page_size) ==
    IF lines = << >> THEN acc
    ELSE split_loop(split_step(acc, Head(lines), page_size), Tail(lines),
                    page_size)

_split_simple(data, page_size) ==
    LET acc == split_loop([pages |-> << >>, current_page |-> << >>,
                           current_size |-> 0],
                          SplitLines(data), page_size)
    IN  IF acc.current_page # << >>
        THEN Append(acc.pages, JoinLines(acc.current_page))
        ELSE acc.pages

\* the 64000 characters from which on the segmenter is not called
jina_size_limit == 64000

\* what the segmentation service does when it is called: "unconfigured"
\* stands for an empty JINA_API_KEY; requests.post raises, raise_for_status
\* raises, the reply has no chunks, or the reply has chunks
JinaOutcomes ==
    {"unconfigured", "transport_error", "error_status", "no_chunks", "chunks"}

\* self.use_jina_segmenter = bool(self.jina_api_key)
use_jina_segmenter(jina) == jina # "unconfigured"

\* the chunks of a successful reply: the service decides them, here one
\* chunk for every character
jina_chunks(data) == [i \in 1..Len(data) |-> << data[i] >>]

\* _split_with_jina(data, max_chunk_length): the payload posted to the
\* service, and the chunks returned or the exception raised
_split_with_jina(data, max_chunk_length, jina) ==
    [request |-> [content |-> data, max_chunk_length |-> max_chunk_length],
     raised |-> jina # "chunks",
     chunks |-> IF jina = "chunks" THEN jina_chunks(data) ELSE << >>]

\* the mutant gives up on a failed segmenter and returns the data as one page
_split_into_pages_single_page_on_failure(data, page_size, jina) ==
    IF Len(data) <= page_size THEN [pages |-> << data >>, requests |-> << >>]
    ELSE IF use_jina_segmenter(jina) /\ Len(data) < jina_size_limit
    THEN LET reply == _split_with_jina(data, page_size, jina) IN
         [pages |-> IF reply.raised THEN << data >> ELSE reply.chunks,
          requests |-> << reply.request >>]
    ELSE [pages |-> _split_simple(data, page_size), requests |-> << >>]

\* _split_into_pages(data, page_size): the pages returned and the requests
\* posted to the segmentation service on the way. Every exception of
\* _split_with_jina is caught and falls through to _split_simple
_split_into_pages(data, page_size, jina) ==
    IF Len(data) <= page_size THEN [pages |-> << data >>, requests |-> << >>]
    ELSE IF use_jina_segmenter(jina) /\ Len(data) < jina_size_limit
    THEN LET reply == _split_with_jina(data, page_size, jina) IN
         [pages |-> IF reply.raised THEN _split_simple(data, page_size)
                    ELSE reply.chunks,
          requests |-> << reply.request >>]
    ELSE [pages |-> _split_simple(data, page_size), requests |-> << >>]

PageBreak == "\n\n--- Page Break ---\n\n"

RECURSIVE _concatenate_results(_)
\* "\n\n--- Page Break ---\n\n".join(page_results)
_concatenate_results(page_results) ==
    IF page_results = << >> THEN ""
    ELSE IF Len(page_results) = 1 THEN Head(page_results)
         ELSE Head(page_results) \o PageBreak
              \o _concatenate_results(Tail(page_results))

\* page_prompt of page i of n (task_executor.py:100)
page_prompt(task_prompt, i, n) ==
    task_prompt \o "\n\n[Processing page " \o ToString(i) \o " of "
        \o ToString(n) \o "]"

\* summary_prompt of _summarize_results (task_executor.py:233-236)
summary_prompt(original_task) ==
    "The following are results from processing multiple pages of data for this task:\n"
        \o original_task
        \o "\n\nPlease synthesize these results into a single, cohesive response."

\* one call of execute_task, by its two arguments; kind and index tell
\* which statement of the paging operation made it
\* a Python str as a text of the model, one entry for every character
Chars(s) == [i \in 1..Len(s) |-> SubSeq(s, i, i)]

RECURSIVE ToStr(_)
\* a text of the model as a Python str
ToStr(text) ==
    IF text = << >> THEN ""
    ELSE IF Len(text) = 1 THEN text[1]
    ELSE ToStr(SubSeq(text, 1, Len(text) \div 2))
         \o ToStr(SubSeq(text, Len(text) \div 2 + 1, Len(text)))

TaskSystemPrompt ==
    "You are a task executor. Process the data according to the user's instructions. Provide clear, concise and terse results, intended to be processed further."

\* the mutant sends the main conversation in front of the task
execute_task_messages_with_history(task_prompt, data) ==
    messages \o
    << [role |-> "system", content |-> TaskSystemPrompt],
       [role |-> "user",
        content |-> task_prompt \o "\n\nData to process:\n" \o data] >>

\* the messages execute_task builds (task_executor.py:46-55)
execute_task_messages(task_prompt, data) ==
    << [role |-> "system", content |-> TaskSystemPrompt],
       [role |-> "user",
        content |-> task_prompt \o "\n\nData to process:\n" \o data] >>

\* one call of execute_task: its two arguments and the arguments of the
\* llm_router.complete call it makes; kind and index tell which statement
\* of the paging operation made it
Invocation(kind, index, task_prompt, data) ==
    [kind |-> kind, index |-> index, task_prompt |-> task_prompt, data |-> data,
     messages |-> execute_task_messages(task_prompt,
                      IF kind = "page" THEN ToStr(data) ELSE data),
     tools |-> None, stream |-> FALSE]

----------------------------------------------------------------------------
(* Paging runs: execute_task_with_paging on drawn data *)

TaskPrompt == "T"
\* a text of exactly 64000 characters, with one line break
LongText == [i \in 1..jina_size_limit |-> IF i = 2 THEN NL ELSE "a"]
Texts == SeqsUpTo({"a", NL}, MaxText) \cup {LongText}
Strategies == {"concatenate", "summarize", "average"}
\* what execute_task returns for a page (response content, or "" for none)
TaskResults == {"x", ""}

\* the long text is there for the size limit of _split_into_pages: it is
\* drawn with every page size and segmenter outcome, one strategy and one
\* main log
PageInit ==
    /\ pg_pc = "input"
    /\ pg_data \in Texts
    /\ pg_size \in 1..MaxPageSize
    /\ pg_strategy \in Strategies
    /\ pg_data = LongText => pg_strategy = "concatenate"
    /\ \E log \in MainLogs :
          /\ LoopAt(log)
          /\ pg_data = LongText => log = InitialMessages
    /\ ProjIdle /\ SelIdle /\ StreamIdle /\ LcIdle
    /\ pg_jina \in JinaOutcomes
    /\ pg_jina_requests = << >>
    /\ pg_pages = << >> /\ pg_results = << >> /\ pg_invocations = << >>
    /\ pg_out = None

\* pages = self._split_into_pages(data, page_size)
SplitIntoPages ==
    /\ pg_pc = "input"
    /\ LET split == _split_into_pages(pg_data, pg_size, pg_jina) IN
          /\ pg_pages' = split.pages
          /\ pg_jina_requests' = split.requests
    /\ pg_pc' = "paging"
    /\ UNCHANGED <<pg_data, pg_size, pg_strategy, pg_results, pg_invocations,
                   pg_out, pg_jina, loopVars, projVars, selVars, streamVars, lcVars>>

NextPage == Len(pg_results) + 1

PageInvocation ==
    Invocation("page", NextPage,
               page_prompt(TaskPrompt, NextPage, Len(pg_pages)),
               pg_pages[NextPage])

\* one round of the page loop whose execute_task returns
ExecutePageReturns ==
    /\ pg_pc = "paging" /\ NextPage <= Len(pg_pages)
    /\ \E result \in TaskResults : pg_results' = Append(pg_results, result)
    /\ pg_invocations' = Append(pg_invocations, PageInvocation)
    /\ UNCHANGED <<pg_pc, pg_data, pg_size, pg_strategy, pg_pages, pg_out,
                   pg_jina, pg_jina_requests,
                   loopVars, projVars, selVars, streamVars, lcVars>>

\* one round of the page loop whose execute_task raises: nothing catches
\* the exception, it leaves execute_task_with_paging
ExecutePageRaises ==
    /\ pg_pc = "paging" /\ NextPage <= Len(pg_pages)
    /\ pg_invocations' = Append(pg_invocations, PageInvocation)
    /\ pg_pc' = "raised"
    /\ pg_out' = "boom"
    /\ UNCHANGED <<pg_data, pg_size, pg_strategy, pg_pages, pg_results,
                   pg_jina, pg_jina_requests,
                   loopVars, projVars, selVars, streamVars, lcVars>>

PagesDone == pg_pc = "paging" /\ NextPage > Len(pg_pages)

\* aggregation_strategy == "concatenate"
Concatenate ==
    /\ PagesDone /\ pg_strategy = "concatenate"
    /\ pg_out' = _concatenate_results(pg_results)
    /\ pg_pc' = "returned"
    /\ UNCHANGED <<pg_data, pg_size, pg_strategy, pg_pages, pg_results,
                   pg_invocations, pg_jina, pg_jina_requests,
                   loopVars, projVars, selVars, streamVars, lcVars>>

SummaryInvocation ==
    Invocation("summary", 0, summary_prompt(TaskPrompt),
               _concatenate_results(pg_results))

\* aggregation_strategy == "summarize", the completion returns
SummarizeReturns ==
    /\ PagesDone /\ pg_strategy = "summarize"
    /\ pg_invocations' = Append(pg_invocations, SummaryInvocation)
    /\ \E result \in TaskResults : pg_out' = result
    /\ pg_pc' = "returned"
    /\ UNCHANGED <<pg_data, pg_size, pg_strategy, pg_pages, pg_results,
                   pg_jina, pg_jina_requests,
                   loopVars, projVars, selVars, streamVars, lcVars>>

\* aggregation_strategy == "summarize", the completion raises
SummarizeRaises ==
    /\ PagesDone /\ pg_strategy = "summarize"
    /\ pg_invocations' = Append(pg_invocations, SummaryInvocation)
    /\ pg_out' = "boom"
    /\ pg_pc' = "raised"
    /\ UNCHANGED <<pg_data, pg_size, pg_strategy, pg_pages, pg_results,
                   pg_jina, pg_jina_requests,
                   loopVars, projVars, selVars, streamVars, lcVars>>

\* raise ValueError(f"Unknown aggregation strategy: ...")
UnknownStrategy ==
    /\ PagesDone /\ pg_strategy \notin {"concatenate", "summarize"}
    /\ pg_out' = "ValueError"
    /\ pg_pc' = "raised"
    /\ UNCHANGED <<pg_data, pg_size, pg_strategy, pg_pages, pg_results,
                   pg_invocations, pg_jina, pg_jina_requests,
                   loopVars, projVars, selVars, streamVars, lcVars>>

PageNext ==
    \/ SplitIntoPages
    \/ ExecutePageReturns
    \/ ExecutePageRaises
    \/ Concatenate
    \/ SummarizeReturns
    \/ SummarizeRaises
    \/ UnknownStrategy

PageSpec == PageInit /\ [][PageNext]_vars

----------------------------------------------------------------------------
(* middleware/context_middleware.py: filter_old_script_versions *)

\* a LangChain message: type tells the class, id is the message id (None
\* until a reducer assigns one), name is the name attribute
LcMessage(type, content, tool_calls, tool_call_id, name) ==
    [type |-> type, content |-> content, tool_calls |-> tool_calls,
     tool_call_id |-> tool_call_id, name |-> name, id |-> None]

HumanMessage(content) == LcMessage("human", content, << >>, None, None)
AIMessage(content, tool_calls) == LcMessage("ai", content, tool_calls, None, None)
ToolMessage(content, tool_call_id, name) ==
    LcMessage("tool", content, << >>, tool_call_id, name)

\* a tool call dict of an AIMessage; path is args.get("path")
LcToolCall(name, path, id) == [name |-> name, path |-> path, id |-> id]

\* truthiness of a message content
ContentTruthy(content) ==
    IF IsStr(content) THEN content.str # "" ELSE content.list # << >>

\* the (message index, path, id) entries the first pass appends for message
\* i, in the order of its tool calls
script_calls_of(msgs, i) ==
    LET tracked == SelectSeq(msgs[i].tool_calls,
                       LAMBDA tc : /\ tc.name = "create_python_script"
                                   /\ Truthy(tc.path) /\ Truthy(tc.id))
    IN  [k \in 1..Len(tracked) |->
            [index |-> i, path |-> tracked[k].path, id |-> tracked[k].id]]

RECURSIVE script_calls_upto(_, _)
\* all entries of script_calls_by_path for the first n msgs, in the
\* order they are appended
script_calls_upto(msgs, n) ==
    IF n = 0 THEN << >>
    ELSE script_calls_upto(msgs, n - 1)
         \o (IF msgs[n].type = "ai" THEN script_calls_of(msgs, n)
             ELSE << >>)

\* calls_sorted[:-1] of every path with more than one call: the stable sort
\* by message index leaves the entries in the order they were appended
tool_calls_to_hide(msgs) ==
    LET calls == script_calls_upto(msgs, Len(msgs)) IN
    { calls[k].id : k \in { j \in 1..Len(calls) :
          \E l \in (j + 1)..Len(calls) : calls[l].path = calls[j].path } }

InSeq(x, seq) == \E i \in 1..Len(seq) : seq[i] = x

\* the body of the second pass for one message, on modified_messages and
\* hidden_count
filter_step(acc, message, hide) ==
    IF message.type = "ai"
    THEN LET filtered_tool_calls ==
                 SelectSeq(message.tool_calls, LAMBDA tc : tc.id \notin hide)
             hidden == Len(message.tool_calls) - Len(filtered_tool_calls)
         IN  IF hidden > 0
             THEN [hidden_count |-> acc.hidden_count + hidden,
                   modified_messages |->
                     IF filtered_tool_calls # << >>
                     THEN Append(acc.modified_messages,
                                 [AIMessage(message.content, filtered_tool_calls)
                                    EXCEPT !.id = message.id])
                     ELSE IF ContentTruthy(message.content)
                          THEN Append(acc.modified_messages,
                                      [AIMessage(message.content, << >>)
                                         EXCEPT !.id = message.id])
                          ELSE acc.modified_messages]
             ELSE [acc EXCEPT !.modified_messages = Append(@, message)]
    ELSE IF message.type = "tool" /\ message.tool_call_id \in hide
         THEN [acc EXCEPT !.hidden_count = @ + 1]
         ELSE IF InSeq(message, acc.modified_messages)
              THEN acc
              ELSE [acc EXCEPT !.modified_messages = Append(@, message)]

RECURSIVE filter_loop(_, _, _)
filter_loop(acc, msgs, hide) ==
    IF msgs = << >> THEN acc
    ELSE filter_loop(filter_step(acc, Head(msgs), hide), Tail(msgs), hide)

\* the return value: None is NoUpdate, {"messages": m} carries m
filter_old_script_versions(msgs) ==
    IF msgs = << >> THEN NoUpdate
    ELSE LET hide == tool_calls_to_hide(msgs) IN
         IF hide = {} THEN NoUpdate
         ELSE LET acc == filter_loop([hidden_count |-> 0,
                                      modified_messages |-> << >>],
                                     msgs, hide)
              IN  IF acc.hidden_count > 0
                  THEN [update |-> TRUE, messages |-> acc.modified_messages]
                  ELSE NoUpdate

----------------------------------------------------------------------------
(* Script filter runs: filter_old_script_versions on drawn histories *)

TurnKinds ==
    {"human", "ai_text", "script_p", "script_p_silent", "script_q",
     "script_p_and_read", "script_p_twice", "script_p_same_id"}

\* the tool call ids the backend chooses: the k-th turn uses call_<k>a and
\* call_<k>b, but a turn of kind script_p_same_id uses the id SameId
\* whatever its position
CallId(k, which) == "call_" \o ToString(k) \o which
SameId == "call_0a"

ScriptCall(path, k, which) ==
    LcToolCall("create_python_script", path, CallId(k, which))

ScriptResult(k, which) ==
    ToolMessage(Str("created"), CallId(k, which), "create_python_script")

\* the messages the k-th turn adds to the history
Turn(kind, k) ==
    CASE kind = "human" -> << HumanMessage(Str("go")) >>
      [] kind = "ai_text" -> << AIMessage(Str("done"), << >>) >>
      [] kind = "script_p" ->
            << AIMessage(Str("v"), << ScriptCall("p.py", k, "a") >>),
               ScriptResult(k, "a") >>
      [] kind = "script_p_silent" ->
            << AIMessage(Str(""), << ScriptCall("p.py", k, "a") >>),
               ScriptResult(k, "a") >>
      [] kind = "script_q" ->
            << AIMessage(Str("v"), << ScriptCall("q.py", k, "a") >>),
               ScriptResult(k, "a") >>
      [] kind = "script_p_and_read" ->
            << AIMessage(Str(""), << ScriptCall("p.py", k, "a"),
                                     LcToolCall("read_file", "p.py", CallId(k, "b")) >>),
               ScriptResult(k, "a"),
               ToolMessage(Str("text"), CallId(k, "b"), "read_file") >>
      [] kind = "script_p_twice" ->
            << AIMessage(Str("v"), << ScriptCall("p.py", k, "a"),
                                      ScriptCall("p.py", k, "b") >>),
               ScriptResult(k, "a"), ScriptResult(k, "b") >>
      [] kind = "script_p_same_id" ->
            << AIMessage(Str("v"),
                   << LcToolCall("create_python_script", "p.py", SameId) >>),
               ToolMessage(Str("created"), SameId, "create_python_script") >>

RECURSIVE History(_, _)
\* the history of the first n turns
History(turns, n) ==
    IF n = 0 THEN << >> ELSE History(turns, n - 1) \o Turn(turns[n], n)

ScriptInit ==
    /\ LoopIdle /\ ProjIdle /\ AuxIdle /\ LoadedIdle /\ ToolsIdle
    /\ ImageIdle /\ LargeIdle
    /\ f_pc = "input"
    /\ \E turns \in SeqsUpTo(TurnKinds, MaxTurns) : f_in = History(turns, Len(turns))
    /\ f_out = NoUpdate

\* filter_old_script_versions(state, runtime) before a model call
FilterOldScriptVersions ==
    /\ f_pc = "input"
    /\ f_out' = filter_old_script_versions(f_in)
    /\ f_pc' = "filtered"
    /\ UNCHANGED <<f_in, loopVars, projVars, auxVars, loadedVars, toolsVars,
                   imageVars, largeVars>>

ScriptNext == FilterOldScriptVersions

ScriptSpec == ScriptInit /\ [][ScriptNext]_vars

----------------------------------------------------------------------------
(* middleware/tool_middleware.py: has_loaded_web_page, remove_web_tools,
   available_tools *)

\* getattr(msg, 'name', ''): an object is the record of its attributes
getattr_name(msg) == IF "name" \in DOMAIN msg THEN msg.name ELSE ""

has_loaded_web_page(msgs) ==
    \E i \in 1..Len(msgs) : getattr_name(msgs[i]) = "web_load_web_page"

\* the part of a tool name behind a prefix, for the names of the model
NameRests == {"load_web_page", "readable_web_get", "other", "hook", "run"}

\* name.startswith("web_")
startswith_web(name) == \E rest \in NameRests : name = "web_" \o rest

\* tools are taken by their names
remove_web_tools(tools) ==
    SelectSeq(tools, LAMBDA name :
        ~startswith_web(name) \/ name = "web_load_web_page")

\* all_tools as available_tools reads or captures it
captured_tools(all_tools, request_tools) ==
    IF all_tools.captured THEN all_tools.tools ELSE request_tools

\* request.tools as available_tools leaves it for the handler
available_tools(msgs, all_tools, request_tools) ==
    IF ~has_loaded_web_page(msgs)
    THEN remove_web_tools(captured_tools(all_tools, request_tools))
    ELSE captured_tools(all_tools, request_tools)

----------------------------------------------------------------------------
(* has_loaded_web_page on drawn objects, as the tests call it *)

\* the objects of the tests: Msg(tool_name), Msg() and object() have no
\* name attribute; a ToolMessage has one
ProbeObjects ==
    { [tool_name |-> "web_load_web_page"],
      [tool_name |-> "other_tool"],
      [plain |-> TRUE],
      ToolMessage(Str("page"), "c1", "web_load_web_page"),
      HumanMessage(Str("go")) }

LoadedInit ==
    /\ LoopIdle /\ ProjIdle /\ AuxIdle /\ ScriptIdle /\ ToolsIdle
    /\ ImageIdle /\ LargeIdle
    /\ h_pc = "input"
    /\ h_msgs \in SeqsUpTo(ProbeObjects, MaxObjects)
    /\ h_result = FALSE

HasLoadedWebPage ==
    /\ h_pc = "input"
    /\ h_result' = has_loaded_web_page(h_msgs)
    /\ h_pc' = "done"
    /\ UNCHANGED <<h_msgs, loopVars, projVars, auxVars, scriptVars, toolsVars,
                   imageVars, largeVars>>

LoadedNext == HasLoadedWebPage

LoadedSpec == LoadedInit /\ [][LoadedNext]_vars

----------------------------------------------------------------------------
(* Model calls through available_tools: the function applied to the
   requests of a run *)

ToolNames ==
    {"shell_run", "web_load_web_page", "web_readable_web_get", "web_other",
     "webhook"}

\* the tool call of an AIMessage that asks for a page; its args hold a url
\* and no path
PageLoadCall == LcToolCall("web_load_web_page", None, "c1")

\* langchain_tools/web_tools.py:111-119: the ToolMessage of a loaded page is
\* built from content and tool_call_id, its name stays None
PageLoadResult == ToolMessage(Str("Loaded web page"), "c1", None)

\* the messages a history is drawn from; the last one is the result of a
\* page load with the name attribute set to the tool, the record
\* has_loaded_web_page looks for
HistoryMessages ==
    { HumanMessage(Str("go")),
      AIMessage(Str(""), << PageLoadCall >>),
      PageLoadResult,
      ToolMessage(Str("Loaded web page"), "c1", "web_load_web_page") }

ToolsInit ==
    /\ LoopIdle /\ ProjIdle /\ AuxIdle /\ ScriptIdle /\ LoadedIdle
    /\ ImageIdle /\ LargeIdle
    /\ t_history = << >>
    /\ t_tools \in SeqsUpTo(ToolNames, MaxTools)
    /\ t_request_tools = << >>
    /\ t_all_tools = NoAllTools
    /\ t_calls = 0

\* available_tools(request, handler). The request of a call: its messages
\* are those of the previous call and the messages added since; its tools
\* are the tools of the agent or, for a request object that is used again,
\* the list the previous call assigned to it; its state dict holds the
\* all_tools entry the previous call wrote, or none. The call writes
\* state["all_tools"] and request.tools
ModelCall ==
    /\ t_calls >= 0 /\ t_calls < MaxModelCalls
    /\ \E added \in SeqsUpTo(HistoryMessages, MaxHistory - Len(t_history)),
          request_tools \in
              {t_tools} \cup (IF t_calls > 0 THEN {t_request_tools} ELSE {}),
          all_tools \in {t_all_tools, NoAllTools} :
          /\ t_history' = t_history \o added
          /\ t_request_tools' =
                 available_tools(t_history \o added, all_tools, request_tools)
          /\ t_all_tools' =
                 [captured |-> TRUE,
                  tools |-> captured_tools(all_tools, request_tools)]
    /\ t_calls' = t_calls + 1
    /\ UNCHANGED <<t_tools, loopVars, projVars, auxVars, scriptVars,
                   loadedVars, imageVars, largeVars>>

ToolsNext == ModelCall

ToolsSpec == ToolsInit /\ [][ToolsNext]_vars

----------------------------------------------------------------------------
(* langchain_middleware.py: strip_processed_images *)

\* the image block load_image injects (langchain_tools/image_tools.py:101-106)
Base64ImageBlock(data, mime_type) ==
    [type |-> "image", source_type |-> "base64", data |-> data,
     mime_type |-> mime_type]

\* item_type in ("image", "image_url")
IsImageBlock(item) == item.type \in {"image", "image_url"}

_message_has_image_content(message) ==
    /\ IsList(message.content)
    /\ \E j \in 1..Len(message.content.list) :
          IsImageBlock(message.content.list[j])

\* the text stub that takes the place of an image block
ImagePlaceholder == TextBlock("[Image was analyzed in previous turn]")

\* new_content of _strip_image_from_message
new_content(content) ==
    List([j \in 1..Len(content.list) |->
             IF IsImageBlock(content.list[j]) THEN ImagePlaceholder
             ELSE content.list[j]])

\* message_class(content=new_content) raises for a ToolMessage, whose
\* tool_call_id is a required field
_strip_image_raises(message) ==
    IsList(message.content) /\ message.type = "tool"

\* message_class(content=new_content) with id and name copied; the other
\* fields are the defaults of the constructor
_strip_image_from_message(message) ==
    IF ~ IsList(message.content) THEN message
    ELSE [LcMessage(message.type, new_content(message.content), << >>, None,
                    message.name) EXCEPT !.id = message.id]

\* position of the last message of type "ai", 0 when there is none (the
\* code counts from 0 and uses -1)
last_ai_index(msgs) ==
    IF \E i \in 1..Len(msgs) : msgs[i].type = "ai"
    THEN CHOOSE i \in 1..Len(msgs) :
            /\ msgs[i].type = "ai"
            /\ \A j \in (i + 1)..Len(msgs) : msgs[j].type # "ai"
    ELSE 0

\* the positions whose message is replaced
positions_to_strip(msgs) ==
    {i \in 1..Len(msgs) :
        i < last_ai_index(msgs) /\ _message_has_image_content(msgs[i])}

\* the mutant also strips the images that came after the last AI message
strip_processed_images_everywhere(msgs) ==
    IF msgs = << >> \/ last_ai_index(msgs) = 0 THEN NoUpdate
    ELSE LET everywhere == {i \in 1..Len(msgs) :
                               _message_has_image_content(msgs[i])}
         IN  IF \E i \in everywhere : _strip_image_raises(msgs[i])
             THEN Raised("ValidationError")
             ELSE IF everywhere = {} THEN NoUpdate
             ELSE [update |-> TRUE,
                   messages |-> [i \in 1..Len(msgs) |->
                       IF i \in everywhere
                       THEN _strip_image_from_message(msgs[i])
                       ELSE msgs[i]]]

\* what the before_model hook returns: None, {"messages": modified_messages},
\* or the exception that leaves it
strip_processed_images(msgs) ==
    IF msgs = << >> \/ last_ai_index(msgs) = 0 THEN NoUpdate
    ELSE IF \E i \in positions_to_strip(msgs) : _strip_image_raises(msgs[i])
         THEN Raised("ValidationError")
         ELSE IF positions_to_strip(msgs) = {} THEN NoUpdate
         ELSE [update |-> TRUE,
               messages |-> [i \in 1..Len(msgs) |->
                   IF i \in positions_to_strip(msgs)
                   THEN _strip_image_from_message(msgs[i])
                   ELSE msgs[i]]]

----------------------------------------------------------------------------
(* Image runs: strip_processed_images on drawn histories, then
   dynamic_model_selection on the messages the hook leaves *)

\* langchain_tools/image_tools.py:94-111: the messages of the Command
\* returned for a loaded image
load_image_update(tool_call_id) ==
    << ToolMessage(Str("Image loaded successfully"), tool_call_id, None),
       HumanMessage(List(<< TextBlock("Please analyze this image:"),
                            Base64ImageBlock("QUJD", "image/png") >>)) >>

\* langchain_tools/image_tools.py:70: the ToolMessage of a failed load
load_image_error(tool_call_id) ==
    << ToolMessage(Str("Error: Image file not found: a.png"), tool_call_id,
                   None) >>

ImageTurnKinds ==
    {"human", "human_long", "ai_text", "load_image", "load_image_error"}

\* the tool call of an AIMessage that asks for an image; its args hold a
\* file_path and no path
LoadImageCall(k) == LcToolCall("load_image", None, CallId(k, "a"))

\* the messages the k-th turn adds to the history
ImageTurn(kind, k) ==
    CASE kind = "human" -> << HumanMessage(Str("hi")) >>
      [] kind = "human_long" -> << HumanMessage(Str("aaaaaaaaaaaaa")) >>
      [] kind = "ai_text" -> << AIMessage(Str("done"), << >>) >>
      [] kind = "load_image" ->
            << AIMessage(Str(""), << LoadImageCall(k) >>) >>
            \o load_image_update(CallId(k, "a"))
      [] kind = "load_image_error" ->
            << AIMessage(Str(""), << LoadImageCall(k) >>) >>
            \o load_image_error(CallId(k, "a"))

RECURSIVE ImageHistory(_, _)
\* the history of the first n turns
ImageHistory(turns, n) ==
    IF n = 0 THEN << >>
    ELSE ImageHistory(turns, n - 1) \o ImageTurn(turns[n], n)

\* the messages of a state carry ids
WithIds(msgs) ==
    [k \in 1..Len(msgs) |-> [msgs[k] EXCEPT !.id = "m" \o ToString(k)]]

ImageInit ==
    /\ LoopIdle /\ ProjIdle /\ AuxIdle
    /\ ScriptIdle /\ LoadedIdle /\ ToolsIdle /\ LargeIdle
    /\ i_pc = "input"
    /\ \E turns \in SeqsUpTo(ImageTurnKinds, MaxImageCalls) :
          i_messages = WithIds(ImageHistory(turns, Len(turns)))
    /\ i_out = NoUpdate
    /\ i_model = None

\* strip_processed_images(state, runtime) before a model call
StripProcessedImages ==
    /\ i_pc = "input"
    /\ i_out' = strip_processed_images(i_messages)
    /\ i_pc' = IF "raised" \in DOMAIN i_out' THEN "failed" ELSE "stripped"
    /\ UNCHANGED <<i_messages, i_model, loopVars, projVars, auxVars,
                   scriptVars, loadedVars, toolsVars, largeVars>>

\* state["messages"] once the update of the hook has taken the place of
\* the list it was given
messages_after(msgs, out) == IF out.update THEN out.messages ELSE msgs

\* dynamic_model_selection(request, handler) for the model call that
\* follows the hook; request.state holds the messages the hook left
CallModel ==
    /\ i_pc = "stripped"
    /\ i_model' =
          dynamic_model_selection(messages_after(i_messages, i_out), s_models)
    /\ i_pc' = "selected"
    /\ UNCHANGED <<i_messages, i_out, loopVars, projVars, auxVars,
                   scriptVars, loadedVars, toolsVars, largeVars>>

ImageNext == InitializeModels \/ StripProcessedImages \/ CallModel

ImageSpec == ImageInit /\ [][ImageNext]_vars

----------------------------------------------------------------------------
(* Large-result runs: execute_tool_calls on drawn calls, then a call of
   task_orientated_paging on the data store they leave *)

RECURSIVE Repeat(_, _)
Repeat(text, n) == IF n = 0 THEN "" ELSE text \o Repeat(text, n - 1)

\* a file content longer than MAX_RESULT_SIZE
LargeText == Repeat("0123456789", 65)

LargeToolCalls ==
    { ToolCall("a", "read_file", "{}"),
      ToolCall("b", "read_file", PathArguments),
      ToolCall("c", "load_image", "{}"),
      ToolCall("d", "nope", "{}"),
      ToolCall("e", "store_data_for_task", StoreArguments),
      ToolCall("f", "store_data_for_task", "{}") }

\* what the tool of a call does: a short result, a long one (for load_image
\* the base64 data of a large picture), or an exception
LargeBehaviours ==
    { ReturnsDict(TRUE, Str("DATA"), TRUE, None, None),
      ReturnsDict(TRUE, Str(LargeText), TRUE, None, None),
      ReturnsDict(TRUE, Str(LargeText), FALSE, "STUB", None),
      Raises(FALSE, "boom") }

\* what the tool of a call can do: what the code of the repository fixes
\* (store_data_for_task, arguments that do not fit the function), or one
\* of the drawn behaviours; a call that never reaches func(**arguments)
\* has nothing to draw
BehavioursOf(tool_call) ==
    IF \/ tool_call.function_name \notin TOOL_REGISTRY
       \/ ~ JsonLoads(tool_call.arguments)
    THEN {Raises(FALSE, "boom")}
    ELSE IF \/ tool_call.function_name = "store_data_for_task"
            \/ arguments_error(tool_call.function_name,
                               tool_call.arguments) # None
    THEN {tool_behaviour(tool_call, Raises(FALSE, "boom"))}
    ELSE LargeBehaviours

\* the data ids the model may pass to task_orientated_paging
DataIds ==
    { _generate_data_id("read_file", "{}"),
      _generate_data_id("read_file", PathArguments),
      "file_contents_readme" }

\* whether the executor tries the segmenter (use_jina_segmenter and a key)
\* and the segmenter answers
LargeJinaOutcomes == {"unconfigured", "chunks"}

LargeInit ==
    /\ LoopIdle /\ ProjIdle /\ AuxIdle
    /\ ScriptIdle /\ LoadedIdle /\ ToolsIdle /\ ImageIdle
    /\ l_pc = "input"
    /\ l_calls \in SeqsUpTo(LargeToolCalls, MaxLargeCalls)
    /\ l_behaviours \in [1..Len(l_calls) ->
                              UNION {BehavioursOf(c) : c \in LargeToolCalls}]
    /\ \A i \in 1..Len(l_calls) : l_behaviours[i] \in BehavioursOf(l_calls[i])
    /\ l_store = << >>
    /\ l_results = << >>
    /\ l_lookup = NoLookup
    /\ l_executor = FALSE

\* initialize_task_executor(llm_router), which main() calls at start-up
\* and which may be called at any time before the paging call
InitializeTaskExecutor ==
    /\ l_pc \in {"input", "executed"}
    /\ ~ l_executor
    /\ l_executor' = TRUE
    /\ UNCHANGED <<l_pc, l_calls, l_behaviours, l_store, l_results, l_lookup,
                   loopVars, projVars, auxVars, scriptVars, loadedVars,
                   toolsVars, imageVars>>

\* results = execute_tool_calls(tool_calls), with the writes of
\* store_data_for_task and _handle_large_result to the data store
ExecuteToolCalls ==
    /\ l_pc = "input"
    /\ l_results' = execute_tool_calls(l_calls, l_behaviours)
    /\ l_store' = data_store_after_calls(l_store, l_calls, l_behaviours)
    /\ l_pc' = "executed"
    /\ UNCHANGED <<l_calls, l_behaviours, l_lookup, l_executor, loopVars,
                   projVars, auxVars, scriptVars, loadedVars, toolsVars,
                   imageVars>>

\* task_orientated_paging(data_id, task, page_size, aggregation_strategy),
\* up to the first execute_task call of execute_task_with_paging. An
\* unknown id returns the error string; a known id asks for the executor,
\* which raises RuntimeError when none was initialised; otherwise the
\* stored data go to execute_task_with_paging, which splits them into
\* pages. The page_size is the default
TaskOrientatedPaging ==
    /\ l_pc = "executed"
    /\ \E data_id \in DataIds, aggregation_strategy \in Strategies,
          jina \in LargeJinaOutcomes :
          LET lookup == task_orientated_paging_lookup(l_store, data_id)
                            @@ [data_id |-> data_id]
          IN  IF ~ lookup.found
              THEN /\ l_lookup' = lookup
                   /\ l_pc' = "returned"
                   /\ UNCHANGED pageVars
              ELSE IF ~ l_executor
              THEN /\ l_lookup' = [lookup EXCEPT
                                      !.error = get_task_executor_error]
                   /\ l_pc' = "raised"
                   /\ UNCHANGED pageVars
              ELSE /\ l_lookup' = lookup
                   /\ l_pc' = "paging"
                   /\ pg_data' = Chars(lookup.data)
                   /\ pg_size' = default_page_size
                   /\ pg_strategy' = aggregation_strategy
                   /\ pg_jina' = jina
                   /\ pg_pages' = _split_into_pages(Chars(lookup.data),
                                       default_page_size, jina).pages
                   /\ pg_jina_requests' =
                         _split_into_pages(Chars(lookup.data),
                                           default_page_size, jina).requests
                   /\ pg_pc' = "paging"
                   /\ UNCHANGED <<pg_results, pg_invocations, pg_out>>
    /\ UNCHANGED <<l_calls, l_behaviours, l_store, l_results, l_executor,
                   loopVars, projVars, selVars, streamVars, scriptVars,
                   loadedVars, toolsVars, imageVars>>

\* after the hand-over the run goes on with the page loop and the
\* aggregation of execute_task_with_paging; its outcome pg_out is what
\* task_orientated_paging returns or raises
LargeNext ==
    \/ InitializeTaskExecutor
    \/ ExecuteToolCalls
    \/ TaskOrientatedPaging
    \/ ExecutePageReturns
    \/ ExecutePageRaises
    \/ Concatenate
    \/ SummarizeReturns
    \/ SummarizeRaises
    \/ UnknownStrategy

LargeSpec == LargeInit /\ [][LargeNext]_vars

----------------------------------------------------------------------------
(* Properties *)

Last(seq) == seq[Len(seq)]

ToolMessages(msgs) == SelectSeq(msgs, LAMBDA m : m.role = "tool")

\* the messages appended by a step
Appended == SubSeq(messages', Len(messages) + 1, Len(messages'))

\* C1: the loop reaches DONE exactly when the response just appended has no
\* tool call, and nothing happens after DONE; a response with tool calls
\* below the iteration cap leads to the execution of the requested tools,
\* after which the iteration counter is one higher and the model is invoked
\* again.
C1_Step ==
    /\ (pc = "AWAITING_MODEL" /\ messages' # messages) =>
          /\ Len(messages') = Len(messages) + 1
          /\ Last(messages').role = "assistant"
          /\ (pc' = "DONE") <=> (Last(messages').tool_calls = << >>)
          /\ (Last(messages').tool_calls # << >>
                 /\ iteration < max_tool_iterations) =>
                (pc' = "EXECUTING_TOOLS"
                    /\ pending_tool_calls' = Last(messages').tool_calls)
          /\ iteration' = iteration
          /\ tool_rounds' = tool_rounds
    /\ pc' = "DONE" => (pc = "AWAITING_MODEL" /\ messages' # messages)
    /\ pc = "EXECUTING_TOOLS" =>
          /\ pc' = "AWAITING_MODEL"
          /\ iteration' = iteration + 1
          /\ tool_rounds' = tool_rounds + 1
          /\ Len(last_results') = Len(pending_tool_calls)
C1_DoneIffNoToolCalls == [][C1_Step]_vars

C1_Witness ==
    /\ pc = "DONE"
    /\ iteration >= 1
    /\ tool_rounds = iteration
    /\ Last(messages).tool_calls = << >>

\* C2: with cap N the loop terminates, never executes tools once the
\* iteration counter has reached N (it aborts with iteration_limit
\* instead), and so makes at most N tool rounds and N+1 model invocations.
C2_TerminatesWithinCap ==
    /\ [](/\ tool_rounds <= max_tool_iterations
          /\ model_invocations <= max_tool_iterations + 1
          /\ (pc = "EXECUTING_TOOLS" => iteration < max_tool_iterations)
          /\ (pc = "ABORTED_iteration_limit" =>
                 /\ iteration = max_tool_iterations
                 /\ Last(messages).tool_calls # << >>))
    /\ <>(pc \in Terminal)

C2_Witness ==
    /\ pc = "ABORTED_iteration_limit"
    /\ max_tool_iterations = 1
    /\ iteration = 1
    /\ tool_rounds = 1
    /\ model_invocations = 2

\* C3: a tool message with metadata is shown as its stub (stub_message, then
\* context_guidance as its own paragraph when present) iff
\* include_in_context is False and k - c >= 2, else with its full content.
C3_StubIffOldAndExcluded ==
    p_pc # "input" =>
        \A i \in 1..Len(p_log) :
            (p_log[i].role = "tool" /\ p_log[i].tool_call_id \in DOMAIN p_meta) =>
                LET m == p_meta[p_log[i].tool_call_id] IN
                IF ~ m.include_in_context /\ p_k - m.created_at_iteration >= 2
                THEN p_out[i].content =
                        Str(IF m.context_guidance = None THEN m.stub_message
                            ELSE m.stub_message \o "\n\n" \o m.context_guidance)
                ELSE p_out[i].content = p_log[i].content

C3_Witness ==
    /\ p_pc = "projected"
    /\ Len(p_log) = 2
    /\ p_log[1].role = "tool" /\ p_log[2].role = "tool"
    /\ p_log[1].tool_call_id = "a" /\ p_log[2].tool_call_id = "b"
    /\ DOMAIN p_meta = {"a", "b"}
    /\ ~ p_meta["a"].include_in_context /\ ~ p_meta["b"].include_in_context
    /\ p_k - p_meta["a"].created_at_iteration = 2
    /\ p_k - p_meta["b"].created_at_iteration = 1
    /\ p_out[1].content = Str("STUB\n\nGUIDE")
    /\ p_out[2].content = Str("FULL-B")

\* C4: the projected log has the length and order of the log; non-tool
\* messages and tool messages without metadata are unchanged; a stubbed
\* message keeps role and tool_call_id.
C4_ProjectionFrame ==
    p_pc # "input" =>
        /\ Len(p_out) = Len(p_log)
        /\ \A i \in 1..Len(p_log) :
              /\ p_out[i].role = p_log[i].role
              /\ p_out[i].tool_call_id = p_log[i].tool_call_id
              /\ p_out[i].tool_calls = p_log[i].tool_calls
              /\ (p_log[i].role # "tool"
                     \/ p_log[i].tool_call_id \notin DOMAIN p_meta) =>
                    p_out[i] = p_log[i]

C4_Witness ==
    /\ p_pc = "projected"
    /\ Len(p_log) = 2
    /\ p_log[1].role = "assistant"
    /\ p_log[2].role = "tool"
    /\ p_out[1] = p_log[1]
    /\ p_out[2].content # p_log[2].content
    /\ p_out[2].tool_call_id = "a"

\* C5: projecting a projected log again with the same metadata and
\* iteration changes nothing.
C5_ProjectionIdempotent ==
    p_pc = "reprojected" => p_out2 = p_out

C5_Witness ==
    /\ p_pc = "reprojected"
    /\ \E i \in 1..Len(p_log) : p_out[i] # p_log[i]
    /\ p_out2 = p_out

\* C6: the log only grows: every step leaves the previous log as a prefix
\* of the new one.
C6_LogAppendOnly == [][IsPrefix(messages, messages')]_vars

C6_Witness ==
    \E i \in 1..Len(context) :
        /\ context[i].content = Str("STUB\n\nGUIDE")
        /\ messages[i].content = Str("DATA-TO-DROP")

\* C7: a metadata entry is created with the current iteration and, once
\* written, is never changed or removed, whatever ids arrive later.
C7_Step ==
    \A id \in DOMAIN tool_result_metadata' :
        IF id \in DOMAIN tool_result_metadata
        THEN tool_result_metadata'[id] = tool_result_metadata[id]
        ELSE tool_result_metadata'[id].created_at_iteration = iteration
C7_MetadataWrittenOnce ==
    [][DOMAIN tool_result_metadata \subseteq DOMAIN tool_result_metadata'
       /\ C7_Step]_vars

\* C8: every tool message answers a tool call of an earlier assistant
\* message of the log.
C8_ToolMessageAnswersEarlierCall ==
    \A i \in 1..Len(messages) :
        messages[i].role = "tool" =>
            \E j \in 1..(i - 1) :
                /\ messages[j].role = "assistant"
                /\ \E c \in 1..Len(messages[j].tool_calls) :
                      messages[j].tool_calls[c].id = messages[i].tool_call_id

C8_Witness ==
    /\ Len(ToolMessages(messages)) >= 2
    /\ \E i \in 1..Len(last_results) : last_results[i].success
    /\ \E i \in 1..Len(last_results) : ~ last_results[i].success

\* C9: a round of tool execution appends exactly one tool message per
\* requested call, in call order, with the call's id and its result or its
\* error text, and then returns to the model, failures included.
C9_Step ==
    pc = "EXECUTING_TOOLS" =>
        /\ pc' = "AWAITING_MODEL"
        /\ Len(ToolMessages(Appended)) = Len(pending_tool_calls)
        /\ \A i \in 1..Len(pending_tool_calls) :
              /\ Appended[i].role = "tool"
              /\ Appended[i].tool_call_id = pending_tool_calls[i].id
              /\ last_results'[i].tool_call_id = pending_tool_calls[i].id
              /\ IF last_results'[i].success
                 THEN Appended[i].content \in {Str("DATA"), Str("DATA-TO-DROP"),
                                               Str("Image loaded")}
                 ELSE Appended[i].content = Str("Error: " \o last_results'[i].error)
C9_OneToolMessagePerCall == [][C9_Step]_vars

C9_Witness ==
    /\ pc = "AWAITING_MODEL"
    /\ Len(last_results) = 2
    /\ ~ last_results[1].success
    /\ last_results[2].success
    /\ Len(messages) >= 5
    /\ messages[Len(messages) - 1].content = Str("Error: boom")
    /\ messages[Len(messages)].content = Str("DATA")

\* C10: a failing stream is retried once against the same backend before
\* the loop ends in backend_error.
C10_RetriedOnce ==
    pc = "ABORTED_backend_error" =>
        /\ Len(backend_calls) = 2
        /\ backend_calls[1] = backend_calls[2]

----------------------------------------------------------------------------
(* Properties of the selection runs *)

RECURSIVE BlockChars(_)
\* characters of the text blocks of a block list
BlockChars(blocks) ==
    IF blocks = << >> THEN 0
    ELSE (IF Head(blocks).type = "text" THEN Len(Head(blocks).text) ELSE 0)
         + BlockChars(Tail(blocks))

RECURSIVE TotalChars(_)
\* characters of the string contents and text blocks of a message list
TotalChars(msgs) ==
    IF msgs = << >> THEN 0
    ELSE (IF IsStr(Head(msgs).content) THEN Len(Head(msgs).content.str)
          ELSE BlockChars(Head(msgs).content.list))
         + TotalChars(Tail(msgs))

\* some message of the list carries an image block
CarriesImage(msgs) ==
    \E i \in 1..Len(msgs) :
        /\ IsList(msgs[i].content)
        /\ \E j \in 1..Len(msgs[i].content.list) :
              "url" \in DOMAIN msgs[i].content.list[j]

SelCompleted == s_pc \in {"completed", "selected"}

\* C11: a request with an image block goes to the multimodal backend when
\* one is configured, whatever its length; when none is configured
\* complete() raises the configuration error and calls no backend at all.
C11_ImageToMultimodalOrError ==
    (SelCompleted /\ CarriesImage(s_msgs)) =>
        IF s_cfg.multimodal
        THEN s_choice = "multimodal" /\ s_calls = << "multimodal" >>
        ELSE s_choice = "ValueError" /\ s_calls = << >>

\* an image request longer than the threshold went to the multimodal backend
C11_Witness ==
    /\ SelCompleted /\ CarriesImage(s_msgs) /\ s_cfg.multimodal
    /\ TotalChars(s_msgs) > message_length_threshold
    /\ s_calls = << "multimodal" >>

\* C12: without image blocks the request goes to the remote backend exactly
\* when the characters of its string contents and text blocks exceed the
\* threshold; a total equal to the threshold goes to the local backend.
C12_RemoteIffStrictlyLonger ==
    (SelCompleted /\ ~CarriesImage(s_msgs)) =>
        /\ s_choice = IF TotalChars(s_msgs) > message_length_threshold
                      THEN "remote" ELSE "local"
        /\ s_calls = << s_choice >>

\* a request of exactly the threshold, part of it in a text block next to a
\* block that is not text, went to the local backend
C12_Witness ==
    /\ SelCompleted /\ ~CarriesImage(s_msgs)
    /\ TotalChars(s_msgs) = message_length_threshold
    /\ \E i \in 1..Len(s_msgs) : IsList(s_msgs[i].content)
    /\ s_choice = "local"

\* the model the selection rules pick for a request that is not sent to
\* the multimodal model, and the other general-purpose model
ChosenByLength(msgs) ==
    IF TotalChars(msgs) > router_threshold THEN "remote" ELSE "local"
OtherGeneral(model) == IF model = "remote" THEN "local" ELSE "remote"

C13_Step ==
    (/\ s_pc = "completed" /\ s_pc' = "selected"
     /\ ~ (CarriesImage(s_msgs) /\ s_models.multimodal)) =>
        LET chosen == ChosenByLength(s_msgs) IN
        /\ s_mw' # "multimodal"
        /\ s_models[chosen] => s_mw' = chosen
        /\ (~ s_models[chosen] /\ s_models[OtherGeneral(chosen)])
              => s_mw' = OtherGeneral(chosen)
        /\ (~ s_models[chosen] /\ ~ s_models[OtherGeneral(chosen)])
              => s_mw' = None

\* C13: in the middleware a request that the rules do not send to the
\* multimodal model gets the model the length rule picks when that model is
\* set; when it is not set the request gets the other general-purpose
\* model, in both directions, and never the multimodal model; when neither
\* general-purpose model is set no model is assigned. The models are those
\* set at the time of the call.
C13_FallbackToOtherGeneral == [][C13_Step]_vars

\* a long request fell back to the local model although a multimodal model
\* was set
C13_Witness ==
    /\ s_pc = "selected" /\ ~CarriesImage(s_msgs)
    /\ TotalChars(s_msgs) > router_threshold
    /\ ~s_models.remote /\ s_models.local /\ s_models.multimodal
    /\ s_mw = "local"

----------------------------------------------------------------------------
(* Properties of the stream runs *)

RECURSIVE DeltaArgText(_, _)
\* the argument fragments of the deltas of one chunk for index idx, in order
DeltaArgText(deltas, idx) ==
    IF deltas = << >> THEN ""
    ELSE (IF Head(deltas).index = idx /\ Head(deltas).arguments # None
          THEN Head(deltas).arguments ELSE "")
         \o DeltaArgText(Tail(deltas), idx)

RECURSIVE ArgText(_, _)
\* the argument fragments a stream delivers for index idx, in arrival order
ArgText(chunks, idx) ==
    IF chunks = << >> THEN ""
    ELSE DeltaArgText(Head(chunks).tool_calls, idx) \o ArgText(Tail(chunks), idx)

RECURSIVE Dedup(_, _)
Dedup(s, seen) ==
    IF s = << >> THEN << >>
    ELSE IF Head(s) \in seen THEN Dedup(Tail(s), seen)
         ELSE << Head(s) >> \o Dedup(Tail(s), seen \cup {Head(s)})

RECURSIVE DeltaIndexes(_)
\* the index of every delta of a stream, in arrival order
DeltaIndexes(chunks) ==
    IF chunks = << >> THEN << >>
    ELSE [j \in 1..Len(Head(chunks).tool_calls) |->
              Head(chunks).tool_calls[j].index]
         \o DeltaIndexes(Tail(chunks))

\* the indexes of a stream in the order of their first event
FirstIndexes(chunks) == Dedup(DeltaIndexes(chunks), {})

StreamAssembled == st_pc = "done" /\ st_out.raised = None

RECURSIVE LastGiven(_, _, _)
\* the latest non-empty id or name the deltas give for index idx, else ""
LastGiven(deltas, idx, field) ==
    IF deltas = << >> THEN ""
    ELSE LET d == deltas[Len(deltas)] IN
         IF d.index = idx /\ d[field] # None /\ d[field] # "" THEN d[field]
         ELSE LastGiven(SubSeq(deltas, 1, Len(deltas) - 1), idx, field)

RECURSIVE AllDeltas(_)
\* every delta of a stream, in arrival order
AllDeltas(chunks) ==
    IF chunks = << >> THEN << >>
    ELSE Head(chunks).tool_calls \o AllDeltas(Tail(chunks))

\* C14: every reconstructed tool call carries exactly the concatenation, in
\* arrival order, of the argument fragments of its index, however they are
\* split across events and whatever events of other indexes come between;
\* there is one reconstructed tool call for each index of the stream.
C14_ArgumentsAreConcatenation ==
    StreamAssembled =>
        LET idxs == FirstIndexes(st_chunks)
            n == Len(idxs)
        IN  /\ Len(st_out.tool_calls) = n
            /\ \E perm \in [1..n -> 1..n] :
                  /\ \A i, j \in 1..n : i # j => perm[i] # perm[j]
                  /\ \A k \in 1..n :
                        LET tc == st_out.tool_calls[k]
                            idx == idxs[perm[k]]
                        IN  /\ tc.arguments = ArgText(st_chunks, idx)
                            /\ tc.id = LastGiven(AllDeltas(st_chunks), idx, "id")
                            /\ tc.function_name
                                  = LastGiven(AllDeltas(st_chunks), idx, "name")

\* the arguments of index 0 arrived in two events with an event of index 1
\* between them and were reconstructed as "{}"
C14_Witness ==
    /\ StreamAssembled
    /\ Len(st_chunks) >= 3
    /\ \E i, j, k \in 1..Len(st_chunks) :
          /\ i < j /\ j < k
          /\ DeltaArgText(st_chunks[i].tool_calls, 0) = "{"
          /\ DeltaIndexes(<< st_chunks[j] >>) = << 1 >>
          /\ DeltaArgText(st_chunks[k].tool_calls, 0) = "}"
    /\ Len(st_out.tool_calls) = 2
    /\ st_out.tool_calls[1].arguments = "{}"

\* C15: a tool call whose events carry no argument text is reconstructed
\* with the arguments "{}".
C15_EmptyArgumentsBecomeEmptyObject ==
    StreamAssembled =>
        \A k \in 1..Len(st_out.tool_calls) :
            LET tc == st_out.tool_calls[k] IN
            (\E i \in 1..Len(FirstIndexes(st_chunks)) :
                LET idx == FirstIndexes(st_chunks)[i] IN
                /\ ArgText(st_chunks, idx) = ""
                /\ tc.id = LastGiven(AllDeltas(st_chunks), idx, "id")
                /\ tc.function_name
                      = LastGiven(AllDeltas(st_chunks), idx, "name"))
            => tc.arguments = "{}"

\* some event of the stream carries a finish_reason
HasTerminalEvent(chunks) ==
    \E i \in 1..Len(chunks) :
        chunks[i].has_choice /\ chunks[i].finish_reason # None

\* C16: a stream that ends without an event carrying a finish_reason makes
\* the reconstruction fail; no response with an invented finish_reason is
\* assembled.
C16_NoTerminalEventFails ==
    (st_pc = "done" /\ ~HasTerminalEvent(st_chunks)) => st_out.raised # None

----------------------------------------------------------------------------
(* Properties of the paging runs *)

RECURSIVE Flatten(_)
\* the texts of a sequence of pages one after the other
Flatten(pages) ==
    IF pages = << >> THEN << >> ELSE Head(pages) \o Flatten(Tail(pages))

PagesSplit == pg_pc \in {"paging", "returned", "raised"}

\* C17: the texts of the pages, concatenated in index order, are the input
\* text.
C17_SplitRoundTrips == PagesSplit => Flatten(pg_pages) = pg_data

\* C18: no page has more than page_size characters.
C18_PagesWithinPageSize ==
    PagesSplit => \A i \in 1..Len(pg_pages) : Len(pg_pages[i]) <= pg_size

\* the paging operation ended with the exception of a page sub-invocation
PageRaised ==
    /\ pg_pc = "raised"
    /\ pg_invocations # << >>
    /\ pg_invocations[Len(pg_invocations)].kind = "page"

\* C19: a page sub-invocation that raises does not end the paging operation.
C19_FaultIsolated == ~PageRaised

\* the sub-invocations made for pages, in the order they were made
PageCalls == SelectSeq(pg_invocations, LAMBDA c : c.kind = "page")
SummaryCalls == SelectSeq(pg_invocations, LAMBDA c : c.kind = "summary")

\* C20: a paging operation that has ended made exactly one sub-invocation
\* per page, in page order; once the pages are through, "concatenate"
\* returned the results joined by the separator without a further
\* completion and "summarize" made exactly one further completion over
\* that concatenation.
C20_OnePerPageInOrder ==
    pg_pc \in {"returned", "raised"} =>
        /\ Len(PageCalls) = Len(pg_pages)
        /\ \A i \in 1..Len(PageCalls) :
              PageCalls[i].index = i /\ PageCalls[i].data = pg_pages[i]
        /\ (pg_strategy = "concatenate" /\ ~PageRaised) =>
              /\ SummaryCalls = << >>
              /\ pg_out = _concatenate_results(pg_results)
        /\ (pg_strategy = "summarize" /\ ~PageRaised) =>
              /\ Len(SummaryCalls) = 1
              /\ SummaryCalls[1].data = _concatenate_results(pg_results)
              /\ pg_invocations[Len(pg_invocations)].kind = "summary"

----------------------------------------------------------------------------
(* Properties of the task sub-invocations and of the segmenter *)

\* the messages of a page sub-invocation as a function of the task prompt,
\* the place of the page and the text of the page alone
IsolatedMessages(i, n, page) ==
    << [role |-> "system", content |-> TaskSystemPrompt],
       [role |-> "user",
        content |-> TaskPrompt \o "\n\n[Processing page " \o ToString(i)
                    \o " of " \o ToString(n) \o "]"
                    \o "\n\nData to process:\n" \o ToStr(page)] >>

C21_Step ==
    /\ messages' = messages
    /\ \A k \in 1..Len(pg_invocations') :
          pg_invocations'[k].kind = "page" =>
              /\ pg_invocations'[k].messages
                    = IsolatedMessages(pg_invocations'[k].index, Len(pg_pages'),
                                       pg_pages'[pg_invocations'[k].index])
              /\ pg_invocations'[k].tools = None

\* C21: every page sub-invocation sends exactly the fixed executor text and
\* the task prompt with the text of its own page, whatever the main
\* conversation holds, offers no tools, and no step of the paging operation
\* touches the main conversation.
C21_SubInvocationIsolated == [][C21_Step]_vars

\* two pages of different text were sent while the main conversation held
\* more than its first two messages
C21_Witness ==
    /\ Len(messages) > Len(InitialMessages)
    /\ Len(pg_invocations) >= 2
    /\ pg_invocations[1].kind = "page" /\ pg_invocations[2].kind = "page"
    /\ pg_invocations[1].data # pg_invocations[2].data

\* C22: a segmenter call that fails leaves exactly the pages of the
\* line-aware splitter and the split still returns; the segmenter is not
\* called when it is unconfigured or the data is not below its limit.
C22_SegmenterFallsBack ==
    PagesSplit =>
        /\ (pg_jina_requests # << >> /\ pg_jina # "chunks")
              => pg_pages = _split_simple(pg_data, pg_size)
        /\ (pg_jina = "unconfigured" \/ Len(pg_data) >= 64000)
              => pg_jina_requests = << >>

\* the segmenter was called, answered with an error status, and the pages
\* are the two pages of the line-aware splitter
C22_Witness ==
    /\ PagesSplit /\ pg_jina_requests # << >> /\ pg_jina = "error_status"
    /\ Len(pg_pages) = 2
    /\ pg_pages = _split_simple(pg_data, pg_size)

----------------------------------------------------------------------------
(* Properties of the script filter runs *)

\* the history the model sees after the middleware: its update, or the
\* state as it was when it returns None
Filtered == IF f_out.update THEN f_out.messages ELSE f_in

RECURSIVE CreateCalls(_, _)
\* the ids of the create_python_script calls for path p in a history, in
\* the order of the messages and of the calls inside a message
CreateCalls(msgs, p) ==
    IF msgs = << >> THEN << >>
    ELSE LET own == SelectSeq(Head(msgs).tool_calls,
                      LAMBDA tc : tc.name = "create_python_script" /\ tc.path = p)
         IN  [k \in 1..Len(own) |-> own[k].id] \o CreateCalls(Tail(msgs), p)

ScriptPaths == {"p.py", "q.py"}

HasResult(msgs, id) ==
    \E i \in 1..Len(msgs) : msgs[i].type = "tool" /\ msgs[i].tool_call_id = id

\* C23: of the create_python_script calls of a path only the most recent
\* one is left after the filter, with its tool result; older calls and
\* their tool results are gone; the call of a path with a single call and
\* its tool result stay.
C23_OnlyLatestScriptVersion ==
    f_pc = "filtered" =>
        \A p \in ScriptPaths :
            LET before == CreateCalls(f_in, p) IN
            before # << >> =>
                /\ CreateCalls(Filtered, p) = << before[Len(before)] >>
                /\ \A k \in 1..Len(before) :
                      HasResult(Filtered, before[k]) <=> (k = Len(before))

\* the ids of the calls that are not the most recent one of their path
HiddenCalls ==
    UNION { { CreateCalls(f_in, p)[k] : k \in 1..(Len(CreateCalls(f_in, p)) - 1) }
            : p \in ScriptPaths }

\* a message the filter has to change or drop
Affected(m) ==
    \/ m.type = "ai" /\ \E k \in 1..Len(m.tool_calls) : m.tool_calls[k].id \in HiddenCalls
    \/ m.type = "tool" /\ m.tool_call_id \in HiddenCalls

RECURSIVE IsSubsequence(_, _)
IsSubsequence(a, b) ==
    IF a = << >> THEN TRUE
    ELSE IF b = << >> THEN FALSE
    ELSE IF Head(a) = Head(b) THEN IsSubsequence(Tail(a), Tail(b))
         ELSE IsSubsequence(a, Tail(b))

\* C30: every message of the history that holds no hidden call and is not
\* the result of one is in the output exactly once, unchanged and in order,
\* also when it equals an earlier message; every tool result of the output
\* answers a call of an earlier AI message of the output; without a path
\* with more than one call there is no update.
C30_FilterFrame ==
    f_pc = "filtered" =>
        LET untouched == SelectSeq(f_in, LAMBDA m : ~Affected(m))
            changed == SelectSeq(f_in, LAMBDA m : Affected(m) /\ m.type = "ai")
        IN  /\ IsSubsequence(untouched, Filtered)
            /\ Len(Filtered) <= Len(untouched) + Len(changed)
            /\ \A i \in 1..Len(Filtered) :
                  Filtered[i].type = "tool" =>
                      \E j \in 1..(i - 1) :
                          /\ Filtered[j].type = "ai"
                          /\ \E k \in 1..Len(Filtered[j].tool_calls) :
                                Filtered[j].tool_calls[k].id = Filtered[i].tool_call_id
            /\ HiddenCalls = {} => ~f_out.update

----------------------------------------------------------------------------
(* Properties of the tool middleware *)

\* an object records the tool web_load_web_page: by its tool_name, as in
\* the tests, or by its name, as a ToolMessage does
RecordsPageLoad(msg) ==
    \/ "tool_name" \in DOMAIN msg /\ msg.tool_name = "web_load_web_page"
    \/ "name" \in DOMAIN msg /\ msg.name = "web_load_web_page"

\* C24: has_loaded_web_page is True exactly when some message records the
\* tool web_load_web_page.
C24_LoadedIffRecorded ==
    h_pc = "done" =>
        (h_result <=> \E i \in 1..Len(h_msgs) : RecordsPageLoad(h_msgs[i]))

\* message i answers a tool call of web_load_web_page made earlier
AnswersPageLoad(history, i) ==
    \E j \in 1..(i - 1) :
        /\ history[j].type = "ai"
        /\ \E k \in 1..Len(history[j].tool_calls) :
              /\ history[j].tool_calls[k].name = "web_load_web_page"
              /\ history[j].tool_calls[k].id = history[i].tool_call_id

\* a page load is in the history: a ToolMessage that carries the name of
\* web_load_web_page or answers a call of it
PageLoaded(history) ==
    \E i \in 1..Len(history) :
        /\ history[i].type = "tool"
        /\ \/ history[i].name = "web_load_web_page"
           \/ AnswersPageLoad(history, i)

RECURSIVE WithoutOtherWebTools(_)
\* the tools whose name does not begin with web_, and the loader, in order
WithoutOtherWebTools(tools) ==
    IF tools = << >> THEN << >>
    ELSE (IF Head(tools) \in {"shell_run", "webhook", "web_load_web_page"}
          THEN << Head(tools) >> ELSE << >>)
         \o WithoutOtherWebTools(Tail(tools))

C25_Step ==
    t_calls' = t_calls + 1 =>
        t_request_tools' = IF PageLoaded(t_history')
                           THEN t_tools
                           ELSE WithoutOtherWebTools(t_tools)

\* C25: every model call before a page load is offered the tools that are
\* not web tools plus the loader, in their order; every model call after a
\* page load is offered the full list of the agent again.
C25_ToolsRestoredAfterLoad == [][C25_Step]_vars

----------------------------------------------------------------------------
(* Properties of the agent runs with images *)

\* positions of the AI messages of a history
AIPositions(msgs) == {i \in 1..Len(msgs) : msgs[i].type = "ai"}

\* position k lies before the most recent AI message
BeforeLatestAI(msgs, k) == \E i \in AIPositions(msgs) : k < i

HasImageBlock(message) ==
    /\ IsList(message.content)
    /\ \E j \in 1..Len(message.content.list) :
          message.content.list[j].type \in {"image", "image_url"}

\* after is before with every image block replaced by the placeholder
ImagesReplaced(before, after) ==
    /\ IsList(after.content)
    /\ Len(after.content.list) = Len(before.content.list)
    /\ \A j \in 1..Len(before.content.list) :
          after.content.list[j] =
              IF before.content.list[j].type \in {"image", "image_url"}
              THEN [type |-> "text",
                    text |-> "[Image was analyzed in previous turn]"]
              ELSE before.content.list[j]
    /\ after.type = before.type /\ after.id = before.id

\* the length rule of the middleware, fallbacks included; None when neither
\* general model is set
LengthRule(msgs, models) ==
    IF _calculate_message_length(msgs) > router_threshold /\ models.remote
    THEN "remote"
    ELSE IF models.local THEN "local"
         ELSE IF models.remote THEN "remote" ELSE None

\* the hook runs: the list it leaves has the length and order of the one
\* it was given, the image blocks before the most recent AI message are
\* placeholders, every other message is as it was
StripStep ==
    (i_pc = "input" /\ i_pc' = "stripped") =>
        LET after == messages_after(i_messages, i_out') IN
        /\ Len(after) = Len(i_messages)
        /\ \A k \in 1..Len(i_messages) :
              IF BeforeLatestAI(i_messages, k) /\ HasImageBlock(i_messages[k])
              THEN ImagesReplaced(i_messages[k], after[k])
              ELSE after[k] = i_messages[k]

\* the model is called: the multimodal model is chosen exactly when it is
\* set and an image was added since the model's latest answer; otherwise
\* the length rule decides
CallStep ==
    (i_pc = "stripped" /\ i_pc' = "selected") =>
        LET after == messages_after(i_messages, i_out)
            fresh_image == \E k \in 1..Len(i_messages) :
                              /\ HasImageBlock(i_messages[k])
                              /\ ~ BeforeLatestAI(i_messages, k)
            stale_image == \E k \in 1..Len(after) :
                              /\ HasImageBlock(after[k])
                              /\ BeforeLatestAI(after, k)
        IN  /\ ~ stale_image
            /\ i_model' = IF fresh_image /\ s_models.multimodal
                          THEN "multimodal"
                          ELSE LengthRule(after, s_models)

C27_Step == StripStep /\ CallStep

\* C27: before each model call strip_processed_images replaces the image
\* blocks located before the most recent AI message by the placeholder and
\* leaves the other messages unchanged, so that an injected image selects
\* the multimodal model only until the model has answered once; after that
\* the length rule selects the model
C27_ImagesOnlyForOneTurn == [][C27_Step]_vars

\* an image was loaded, the model has answered since, and the call that
\* follows the hook is routed by length, with the multimodal model set and
\* the image replaced by the placeholder
C27_Witness ==
    /\ i_pc = "selected"
    /\ i_out.update
    /\ s_models.multimodal /\ s_models.remote
    /\ i_model = "remote"
    /\ \E k \in 1..Len(i_messages) :
          /\ BeforeLatestAI(i_messages, k) /\ HasImageBlock(i_messages[k])
          /\ i_out.messages[k].content.list[2] = ImagePlaceholder
    /\ \A k \in 1..Len(i_out.messages) : ~ HasImageBlock(i_out.messages[k])

----------------------------------------------------------------------------
(* Properties of the large-result runs *)

\* call i went to a tool of LARGE_RESULT_TOOLS that returned a result whose
\* string form is longer than MAX_RESULT_SIZE
ReturnedLargeResult(i) ==
    /\ l_calls[i].function_name \in
          {"read_file", "execute_shell_command", "readable_web_get",
           "list_directory"}
    /\ l_calls[i].arguments = PathArguments
    /\ l_behaviours[i].kind = "dict"
    /\ Len(str_of_result(l_behaviours[i])) > 600

\* the data id of call i: the tool name, an underscore and the first eight
\* hex digits of the MD5 of the argument string
DataIdOf(i) ==
    l_calls[i].function_name \o "_"
    \o (IF l_calls[i].arguments = "{}" THEN "99914b93" ELSE "6e8f082a")

\* the full result of every large call is in the store under its data id,
\* and a lookup with that id finds it
LargeResultsStored ==
    l_pc # "input" =>
        /\ \A i \in 1..Len(l_calls) :
              ReturnedLargeResult(i) =>
                  /\ DataIdOf(i) \in DOMAIN l_store
                  /\ \E k \in i..Len(l_calls) :
                        /\ ReturnedLargeResult(k) /\ DataIdOf(k) = DataIdOf(i)
                        /\ l_store[DataIdOf(i)] = str_of_result(l_behaviours[k])
                        /\ \A n \in (k + 1)..Len(l_calls) :
                              ~ (ReturnedLargeResult(n)
                                 /\ DataIdOf(n) = DataIdOf(i))
        /\ l_lookup.looked_up =>
              (l_lookup.found <=> l_lookup.data_id \in DOMAIN l_store)

\* C28: a result of a tool in LARGE_RESULT_TOOLS whose string form is
\* longer than MAX_RESULT_SIZE is stored under its data id, and the result
\* of that call is a successful tool result that carries the guidance
\* naming the data id, neither an error nor the full result; a later
\* lookup with the data id finds the stored data
C28_LargeResultGuidance ==
    /\ LargeResultsStored
    /\ l_pc # "input" =>
          \A i \in 1..Len(l_calls) :
              ReturnedLargeResult(i) =>
                  /\ l_results[i].success
                  /\ l_results[i].error = None
                  /\ "data_id" \in DOMAIN l_results[i].result
                  /\ l_results[i].result.data_id = DataIdOf(i)

----------------------------------------------------------------------------
(* Properties of the log when the loop stops *)

\* positions after i of the tool-role messages that carry the id
AnswersAfter(msgs, i, id) ==
    {k \in (i + 1)..Len(msgs) :
        msgs[k].role = "tool" /\ msgs[k].tool_call_id = id}

\* C29: when the loop has stopped in DONE or at the iteration limit, every
\* tool call of every assistant message of the log has exactly one
\* tool-role message with its id later in the log
C29_NoUnansweredToolCalls ==
    pc \in {"DONE", "ABORTED_iteration_limit"} =>
        \A i \in 1..Len(messages) :
            \A j \in 1..Len(messages[i].tool_calls) :
                Cardinality(AnswersAfter(messages, i,
                                messages[i].tool_calls[j].id)) = 1

\* the same for the stop in DONE alone, with every call counted once
\* whatever its id: tool calls and later tool messages pair off
AnsweredWhenDone ==
    pc = "DONE" =>
        \A i \in 1..Len(messages) :
            \A j \in 1..Len(messages[i].tool_calls) :
                AnswersAfter(messages, i, messages[i].tool_calls[j].id) # {}

----------------------------------------------------------------------------
(* Properties of the contexts sent by the loop *)

\* the tool round that produced the tool message at position p: the number
\* of assistant messages with tool calls before it
RoundOf(msgs, p) ==
    Cardinality({i \in 1..(p - 1) :
        msgs[i].role = "assistant" /\ msgs[i].tool_calls # << >>})

\* the tool message holds the result the tool marked include_in_context =
\* False (the only such result of ToolBehaviours)
MarkedExcluded(msg) == msg.content = Str("DATA-TO-DROP")

\* what the latest model invocation was sent for position p of the log: the
\* stub once the result is excluded and an invocation has already followed
\* its execution, the message itself otherwise
SentAsClaimed(p) ==
    IF MarkedExcluded(messages[p])
       /\ model_invocations > RoundOf(messages, p) + 1
    THEN context[p] = [messages[p] EXCEPT !.content = Str("STUB\n\nGUIDE")]
    ELSE context[p] = messages[p]

\* C26: the model invocation that immediately follows the execution of a
\* tool result is sent its full content; every later invocation is sent the
\* stub of a result marked include_in_context = False and the full content
\* of a result marked include_in_context = True, tool errors included
C26_FullOnceThenStub ==
    model_invocations >= 1 =>
        \A p \in 1..Len(context) :
            messages[p].role = "tool" => SentAsClaimed(p)

\* the tool calls of the log have pairwise different ids
FreshIds ==
    \A i, k \in 1..Len(messages) :
        \A j \in 1..Len(messages[i].tool_calls) :
            \A n \in 1..Len(messages[k].tool_calls) :
                messages[i].tool_calls[j].id = messages[k].tool_calls[n].id
                    => (i = k /\ j = n)

\* the same as long as the backend never repeats a tool-call id
FullOnceThenStubWithFreshIds == FreshIds => C26_FullOnceThenStub

\* a third invocation was sent the stub of a result of the first round
StubSentWithFreshIds ==
    /\ FreshIds /\ model_invocations = 3
    /\ \E p \in 1..Len(context) :
          /\ MarkedExcluded(messages[p]) /\ RoundOf(messages, p) = 1
          /\ context[p].content = Str("STUB\n\nGUIDE")

====
